---------------------------- MODULE Spec2Model ----------------------------
(***************************************************************************)
(* A state-machine model of the kernel lifecycle manager of the agent     *)
(* (src/src/ai/backend/agent/server.py, class AgentRPCServer).            *)
(*                                                                         *)
(* The agent runs on a single-threaded cooperative event loop: a handler  *)
(* runs without interruption from one await to the next.  Every action of *)
(* this module is one such run: it starts where a coroutine is resumed    *)
(* (the answer of the container daemon, an event being set, a lock being  *)
(* handed over) and ends at the next await that really suspends.  A call  *)
(* to the container daemon is modelled by its effect on the daemon        *)
(* together with the resumption of the caller, except for kill and delete *)
(* whose answers are kept in the task so that other handlers may run      *)
(* between the daemon's answer and the caller's continuation.             *)
(***************************************************************************)
EXTENDS Integers, Sequences, FiniteSets, Bags, TLC

(***************************************************************************)
(* Bounds of the model.                                                    *)
(***************************************************************************)
NumPorts == 3          \* size of the configured host port range
NumCpus == 2           \* size of the CPU mask
AccelCapacity == 1     \* share units that make up a whole device (1.0)
MaxCreate == 1         \* create_kernel calls for a kernel-id in a run
MaxDestroy == 1        \* destroy_kernel calls for a kernel-id in a run
MaxRestart == 1        \* restart_kernel calls for a kernel-id in a run
MaxSerialRestart == 3  \* concurrent restart_kernel calls for one kernel-id
MaxQueuedRestart == 2  \* restart_kernel calls for a kernel-id next to execute
MaxExit == 1           \* containers that terminate by themselves in a run
MaxExecute == 1        \* execute calls for a kernel-id in a run
MaxInterrupt == 1      \* interrupt_kernel calls for a kernel-id in a run
MaxDie == 2            \* containers that terminate by themselves next to duplicates
MaxDuplicate == 2      \* die events the daemon's stream delivers once more
MaxClock == 2          \* the highest reading of the monotonic clock
MaxReap == 2           \* ticks of the idle reaper's timer in a run
IdleTimeout == 1       \* config.idle_timeout, in units of the clock
MaxReset == 1          \* reset calls in a run
MaxLen == 6            \* pieces of a service-port definition
MaxBoot == 1           \* restarts of the agent process in a run
MaxShutdown == 1       \* SIGTERM signals in a run
MaxRestartReap == 1    \* ticks of the reaper in a run with a restart
MaxName == 3           \* pieces of a kernel-id or of a container name
MaxRedelivered == 1    \* die events delivered again in a run with a shutdown

(***************************************************************************)
(* Program constants.                                                      *)
(***************************************************************************)
PortLo == 30000
ReplInPort == 2000
ReplOutPort == 2001
MiBPerGiB == 1024       \* 2 ** 30 bytes, counted in MiB

PortHi == PortLo + NumPorts - 1
PortRange == PortLo..PortHi
CpuMask == 0..(NumCpus - 1)
Kernels == {"k1", "k2"}
AccelDevices == {0}

NoRecord == [container_id |-> 0]
NoSpec == [cpu_set |-> {-1}]
NoDir == [cpu_set |-> {-2}]

(***************************************************************************)
(* The images the manager may name in a config, with the labels the code  *)
(* reads from them.  "kernel-py" declares no service port, "kernel-web"   *)
(* declares one valid service port and "kernel-bad" one whose port is     *)
(* reserved.                                                               *)
(***************************************************************************)
ImageServicePorts(lang) ==
    CASE lang = "kernel-web" -> <<[name |-> "http", protocol |-> "http", port |-> 8080]>>
      [] lang = "kernel-bad" -> <<[name |-> "repl", protocol |-> "tcp", port |-> 2000]>>
      [] OTHER -> <<>>

ServiceProtocols == {"tcp", "pty", "http"}

\* parse_service_port on an already split item: TRUE when it is accepted.
ServicePortAccepted(item) ==
    /\ item.protocol \in ServiceProtocols
    /\ item.port > 1024
    /\ item.port \notin {ReplInPort, ReplOutPort}

\* The exposed container ports of _create_kernel: 2000, 2001 and the
\* container port of every declared service port.
ExposedPorts(lang) ==
    {ReplInPort, ReplOutPort} \cup
    {ImageServicePorts(lang)[i].port : i \in DOMAIN ImageServicePorts(lang)}

LabelsAccepted(lang) ==
    \A i \in DOMAIN ImageServicePorts(lang) :
        ServicePortAccepted(ImageServicePorts(lang)[i])

(***************************************************************************)
(* parse_service_port.  A definition is a string, kept here as the         *)
(* sequence of its pieces: the colon, words, the minus sign and pairs of   *)
(* decimal digits.                                                         *)
(***************************************************************************)
Colon == ":"
Minus == "-"
Words == {"tcp", "pty", "http"}
DigitPairs == {"00", "01", "10", "20", "24", "25"}
Pieces == {Colon, Minus} \cup Words \cup DigitPairs

PairValue(d) ==
    CASE d = "00" -> 0
      [] d = "01" -> 1
      [] d = "10" -> 10
      [] d = "20" -> 20
      [] d = "24" -> 24
      [] d = "25" -> 25

\* The definitions of n pieces.
Definitions(n) == [1..n -> Pieces]

\* s.split(':'): the fields between the colons, empty ones included.
RECURSIVE Split(_)
Split(s) ==
    IF \A i \in 1..Len(s) : s[i] # Colon
    THEN <<s>>
    ELSE LET i == CHOOSE i \in 1..Len(s) :
                      /\ s[i] = Colon
                      /\ \A j \in 1..(i - 1) : s[j] # Colon
         IN  <<SubSeq(s, 1, i - 1)>> \o Split(SubSeq(s, i + 1, Len(s)))

\* The number a run of digits spells, read from the left.
RECURSIVE Digits(_)
Digits(f) ==
    IF f = <<>> THEN 0
    ELSE Digits(SubSeq(f, 1, Len(f) - 1)) * 100 + PairValue(f[Len(f)])

IsDigits(f) == f # <<>> /\ \A i \in 1..Len(f) : f[i] \in DigitPairs

\* int(port): a run of digits with an optional sign before it; <<>> stands
\* for the ValueError of anything else.
int(f) ==
    CASE IsDigits(f) -> <<Digits(f)>>
      [] f # <<>> /\ f[1] = Minus /\ IsDigits(Tail(f)) -> <<0 - Digits(Tail(f))>>
      [] OTHER -> <<>>

Raised(error) == [raised |-> error]
Returned(value) == [raised |-> "none", value |-> value]

\* parse_service_port with the port check written as port < 1024.
parse_service_port_lax(s) ==
    LET fields == Split(s)
    IN  IF Len(fields) # 3 THEN Raised("ValueError")
        ELSE IF fields[2] \notin {<<w>> : w \in ServiceProtocols}
        THEN Raised("AssertionError")
        ELSE IF int(fields[3]) = <<>> THEN Raised("ValueError")
        ELSE IF int(fields[3])[1] < 1024 THEN Raised("ValueError")
        ELSE Returned([name |-> fields[1],
                       protocol |-> fields[2][1],
                       container_port |-> int(fields[3])[1],
                       host_port |-> "None"])

parse_service_port(s) ==
    LET fields == Split(s)
    IN  IF Len(fields) # 3 THEN Raised("ValueError")
        ELSE LET name == fields[1]
                 protocol == fields[2]
                 port == int(fields[3])
             IN  IF protocol \notin {<<w>> : w \in ServiceProtocols}
                 THEN Raised("AssertionError")
                 ELSE IF port = <<>> THEN Raised("ValueError")
                 ELSE IF port[1] <= 1024 THEN Raised("ValueError")
                 ELSE IF port[1] \in {2000, 2001} THEN Raised("ValueError")
                 ELSE Returned([name |-> name,
                                protocol |-> protocol[1],
                                container_port |-> port[1],
                                host_port |-> "None"])

\* No definition read yet.
NoParse == [s |-> <<>>, out |-> <<>>]

(***************************************************************************)
(* State.                                                                  *)
(***************************************************************************)
VARIABLES
    port_pool,            \* self.port_pool: the free host ports
    cpu_free,             \* self.container_cpu_map: the CPUs not allocated
    accel_free,           \* self.accelerators['cuda'].alloc_map: device -> free units
    container_registry,   \* self.container_registry: kernel-id -> record
    scratch,              \* <scratch_root>/<kernel>/config/resource.txt, or NoDir
    restarting_kernels,   \* self.restarting_kernels: kernel-id -> tracker (0: none)
    trackers,             \* the RestartTracker objects ever constructed
    containers,           \* the daemon's containers, by container id
    events,               \* the daemon's event stream not yet read by monitor()
    last_footprint,       \* monitor(): the footprint of the last event read
    stats,                \* self.stats: container id -> terminated
    runners,              \* the KernelRunner objects ever constructed
    runner_lock,          \* self.runner_lock
    tasks,                \* the coroutines in flight, by task id
    sent,                 \* the kernel events written to self.event_sock (a bag)
    now,                  \* time.monotonic()
    last_used,            \* kernel-id -> 'last_used' of its record in the registry
    parsed,               \* a service-port definition and what parse_service_port
                          \* made of it
    blocking_cleans,      \* self.blocking_cleans: kernel-id -> "none" (no
                          \* event), "clear" or "set"
    quota                 \* the calls the manager may still make for each
                          \* kernel-id, and the containers that may still
                          \* terminate by themselves

vars == <<port_pool, cpu_free, accel_free, container_registry, scratch,
          restarting_kernels, trackers, containers, events, last_footprint,
          stats, runners, runner_lock, tasks, sent, now, last_used, parsed,
          blocking_cleans, quota>>

resources == <<port_pool, cpu_free, accel_free>>
restart_state == <<restarting_kernels, trackers>>
daemon == <<containers, events>>
runner_state == <<runners, runner_lock>>


(***************************************************************************)
(* The configs the manager may send with create_kernel and restart_kernel. *)
(* Slots are decimals in the code; gpu_slot is counted here in units of    *)
(* 1/AccelCapacity of a device.                                            *)
(***************************************************************************)
Configs ==
    { [lang |-> "kernel-py",  cpu_slot |-> 1, mem_slot |-> 1, gpu_slot |-> 0, mounts |-> <<>>],
      [lang |-> "kernel-py",  cpu_slot |-> 3, mem_slot |-> 2, gpu_slot |-> 1, mounts |-> <<"vf">>],
      [lang |-> "kernel-bad", cpu_slot |-> 1, mem_slot |-> 1, gpu_slot |-> 0, mounts |-> <<>>] }

NoCfg == [lang |-> "none", cpu_slot |-> 0, mem_slot |-> 0, gpu_slot |-> 0, mounts |-> <<>>]

InRegistry(k) == container_registry[k].container_id # 0

\* send_event('kernel_terminated', kernel_id, reason, None): the events sent
\* with one more of this kind.
Publish(k, reason) == sent (+) SetToBag({<<k, reason>>})

\* update_last_used storing the start of the clock instead of its reading.
TouchFromZero(k) ==
    IF InRegistry(k) THEN [last_used EXCEPT ![k] = 0] ELSE last_used

\* update_last_used: the record of a kernel-id that is in the registry gets
\* the current time; KeyError is swallowed for any other kernel-id.
Touch(k) ==
    IF InRegistry(k) THEN [last_used EXCEPT ![k] = now] ELSE last_used

Min(a, b) == IF a < b THEN a ELSE b

(***************************************************************************)
(* CPUAllocMap (resources.py).  One NUMA node holds the whole mask; alloc  *)
(* takes the n lowest free CPUs and fails when fewer than n are free.      *)
(***************************************************************************)
CpuNumCores == Cardinality(CpuMask)

CpuAllocOk(free, n) == Cardinality(free) >= n

CpuAlloc(free, n) ==
    CHOOSE S \in SUBSET free :
        /\ Cardinality(S) = n
        /\ \A a \in S : \A b \in free \ S : a < b

CpuFree(free, cpu_set) == free \cup (cpu_set \cap CpuMask)

(***************************************************************************)
(* AcceleratorAllocMap (resources.py): greedy packing, the device with the *)
(* most free share first.                                                  *)
(***************************************************************************)
RECURSIVE AccelTotal(_, _)
AccelTotal(free, devs) ==
    IF devs = {} THEN 0
    ELSE LET d == CHOOSE x \in devs : TRUE
         IN  free[d] + AccelTotal(free, devs \ {d})

AccelAllocOk(free, total) == total <= AccelTotal(free, AccelDevices)

RECURSIVE AccelPack(_, _, _)
AccelPack(free, devs, total) ==
    IF devs = {} \/ total = 0 THEN [d \in AccelDevices |-> 0]
    ELSE LET d == CHOOSE x \in devs :
                     \A y \in devs : free[x] > free[y] \/ (free[x] = free[y] /\ x <= y)
             take == Min(free[d], total)
             rest == AccelPack(free, devs \ {d}, total - take)
         IN  [rest EXCEPT ![d] = take]

AccelAlloc(free, total) == AccelPack(free, AccelDevices, total)

AccelTake(free, shares) == [d \in AccelDevices |-> free[d] - shares[d]]

AccelFree(free, shares) == [d \in AccelDevices |-> free[d] + shares[d]]

NoShares == [d \in AccelDevices |-> 0]

\* The accelerator shares a resource spec carries ('cuda' in spec.shares).
HasAccel(spec) == spec.gpu_slot > 0

(***************************************************************************)
(* Tasks.  A task is a coroutine in flight: an RPC handler, or a           *)
(* clean_kernel scheduled by monitor().                                    *)
(***************************************************************************)
NoTask ==
    [op |-> "none", k |-> "none", pc |-> "none", cfg |-> NoCfg,
     restarting |-> FALSE, spec |-> NoSpec, ports |-> {}, cid |-> 0,
     tr |-> 0, rid |-> 0, info |-> 0, pending |-> {}, waits |-> 0,
     got |-> "ok", old_cid |-> 0, old_spec |-> NoSpec, reason |-> "none",
     kernels |-> {}]

\* Task t is done with outcome how ("ok" or the exception that left it): a
\* task awaiting it is resumed with that outcome, and a clean_runner that
\* still has it on its list will find it done and skip it.
Settled(rec, t, how) ==
    [rec EXCEPT !.pending = @ \ {t},
                !.waits = IF @ = t THEN 0 ELSE @,
                !.got = IF rec.waits = t THEN how ELSE @]

TaskEndsWith(t, how) ==
    tasks' = [x \in DOMAIN tasks \ {t} |-> Settled(tasks[x], t, how)]

TaskEnds(t) == TaskEndsWith(t, "ok")

TaskGoes(t, rec) == tasks' = [tasks EXCEPT ![t] = rec]

\* The id of a task that starts: the lowest one no task in flight bears.
next_task ==
    CHOOSE n \in 1..(Cardinality(DOMAIN tasks) + 1) :
        /\ n \notin DOMAIN tasks
        /\ \A m \in 1..(n - 1) : m \in DOMAIN tasks

TaskStarts(rec) ==
    tasks' = [x \in DOMAIN tasks \cup {next_task} |->
                 IF x = next_task THEN rec ELSE tasks[x]]

\* An exception leaves the handler.  In restart_kernel it leaves the
\* "async with tracker.request_lock" block: the lock is released, and
\* neither restarting_kernels.pop nor done_event.set is reached.
Raise(t) ==
    /\ TaskEnds(t)
    /\ IF tasks[t].op = "restart"
       THEN /\ trackers' = [trackers EXCEPT ![tasks[t].tr].holder = 0]
            /\ UNCHANGED restarting_kernels
       ELSE UNCHANGED restart_state

(***************************************************************************)
(* _create_kernel.                                                         *)
(***************************************************************************)

\* The resource spec devised from the request's limits (PHASE 1 and 2).
NewSpec(cfg, cpu_set, shares) ==
    [cpu_slot |-> cfg.cpu_slot, mem_slot |-> cfg.mem_slot,
     gpu_slot |-> cfg.gpu_slot, cuda |-> shares, mounts |-> cfg.mounts,
     numa_node |-> 0, cpu_set |-> cpu_set,
     memory_limit |-> cfg.mem_slot * MiBPerGiB]

\* The "except Exception" block around containers.create and container.start.
\* shutil.rmtree raises when the scratch directory is gone, and then the
\* lines after it are not reached.
Rollback(t) ==
    LET me == tasks[t]
    IN  IF scratch[me.k] = NoDir
        THEN UNCHANGED <<scratch, port_pool, cpu_free, accel_free>>
        ELSE /\ scratch' = [scratch EXCEPT ![me.k] = NoDir]
             /\ port_pool' = port_pool \cup me.ports
             /\ cpu_free' = CpuFree(cpu_free, me.spec.cpu_set)
             /\ accel_free' = IF HasAccel(me.spec)
                              THEN AccelFree(accel_free, me.spec.cuda)
                              ELSE accel_free

\* PHASE 3 and the drawing of the host ports, up to containers.create.
Persist(t, spec) ==
    LET me == tasks[t]
        exposed == ExposedPorts(me.cfg.lang)
    IN  IF ~me.restarting /\ scratch[me.k] # NoDir
        THEN \* os.makedirs(work_dir): the directory exists
             /\ UNCHANGED <<scratch, port_pool>>
             /\ Raise(t)
        ELSE /\ scratch' = IF me.restarting THEN scratch
                                          ELSE [scratch EXCEPT ![me.k] = spec]
             /\ IF ~LabelsAccepted(me.cfg.lang)
                   \/ Cardinality(exposed) > Cardinality(port_pool)
                THEN /\ UNCHANGED port_pool
                     /\ Raise(t)
                ELSE \E hp \in SUBSET port_pool :
                        /\ Cardinality(hp) = Cardinality(exposed)
                        /\ port_pool' = port_pool \ hp
                        /\ TaskGoes(t, [me EXCEPT !.pc = "containers_create",
                                                  !.spec = spec, !.ports = hp])
                        /\ UNCHANGED restart_state

\* rpc create_kernel: the handler up to its first await.
create_kernel(k, cfg) ==
    /\ quota.create[k] > 0
    /\ quota' = [quota EXCEPT !.create[k] = @ - 1]
    /\ TaskStarts([NoTask EXCEPT !.op = "create", !.k = k, !.cfg = cfg,
                                 !.pc = "images_get"])
    /\ last_used' = Touch(k)
    /\ UNCHANGED <<resources, container_registry, scratch, restart_state,
                   daemon, last_footprint, stats, runner_state,
                   sent, now, parsed, blocking_cleans>>

\* After docker.images.get: PHASE 1 and 2 (the spec is read back or devised
\* and allocated), and without accelerator shares PHASE 3 and the ports.
CreateAllocate(t) ==
    LET me == tasks[t]
        num_cores == Min(CpuNumCores, me.cfg.cpu_slot)
        cpu_set == CpuAlloc(cpu_free, num_cores)
        shares == AccelAlloc(accel_free, me.cfg.gpu_slot)
        spec == NewSpec(me.cfg, cpu_set,
                        IF me.cfg.gpu_slot > 0 THEN shares ELSE NoShares)
    IN  /\ me.pc = "images_get"
        /\ ~me.restarting
        /\ IF ~CpuAllocOk(cpu_free, num_cores)
           THEN /\ UNCHANGED <<resources, scratch>>
                /\ Raise(t)
           ELSE /\ cpu_free' = cpu_free \ cpu_set
                /\ IF me.cfg.gpu_slot > 0
                   THEN IF ~AccelAllocOk(accel_free, me.cfg.gpu_slot)
                        THEN /\ UNCHANGED <<accel_free, port_pool, scratch>>
                             /\ Raise(t)
                        ELSE /\ accel_free' = AccelTake(accel_free, shares)
                             /\ TaskGoes(t, [me EXCEPT !.pc = "generate_docker_args",
                                                       !.spec = spec])
                             /\ UNCHANGED <<port_pool, scratch, restart_state>>
                   ELSE /\ UNCHANGED accel_free
                        /\ Persist(t, spec)
        /\ UNCHANGED <<container_registry, daemon, last_footprint, stats,
                       runner_state, quota,
                       sent, now, last_used, parsed, blocking_cleans>>

\* The same point with restarting=True: the spec is read from resource.txt
\* and nothing is allocated.
CreateReuse(t) ==
    LET me == tasks[t]
    IN  /\ me.pc = "images_get"
        /\ me.restarting
        /\ IF scratch[me.k] = NoDir
           THEN /\ UNCHANGED <<port_pool, scratch>>
                /\ Raise(t)
           ELSE IF HasAccel(scratch[me.k])
                THEN /\ TaskGoes(t, [me EXCEPT !.pc = "generate_docker_args",
                                               !.spec = scratch[me.k]])
                     /\ UNCHANGED <<port_pool, scratch, restart_state>>
                ELSE Persist(t, scratch[me.k])
        /\ UNCHANGED <<cpu_free, accel_free, container_registry, daemon,
                       last_footprint, stats, runner_state, quota,
                       sent, now, last_used, parsed, blocking_cleans>>

\* After generate_docker_args: PHASE 3 and the ports.
CreatePersist(t) ==
    LET me == tasks[t]
    IN  /\ me.pc = "generate_docker_args"
        /\ Persist(t, me.spec)
        /\ UNCHANGED <<cpu_free, accel_free, container_registry, daemon,
                       last_footprint, stats, runner_state, quota,
                       sent, now, last_used, parsed, blocking_cleans>>

\* The daemon holds a container of this kernel's name.
NameTaken(k) ==
    \E c \in DOMAIN containers :
        containers[c].kernel = k /\ containers[c].state # "removed"

\* docker.containers.create answers: the container exists and its stats
\* state is registered.
ContainersCreateOk(t) ==
    LET me == tasks[t]
        cid == Len(containers) + 1
    IN  /\ me.pc = "containers_create"
        /\ ~NameTaken(me.k)
        /\ containers' = Append(containers, [kernel |-> me.k, state |-> "created",
                                                reported |-> FALSE,
                                                ports |-> me.ports,
                                                cpus |-> me.spec.cpu_set])
        /\ stats' = [c \in DOMAIN stats \cup {cid} |->
                        IF c = cid THEN FALSE ELSE stats[c]]
        /\ TaskGoes(t, [me EXCEPT !.pc = "container_start", !.cid = cid])
        /\ UNCHANGED <<resources, container_registry, scratch, restart_state,
                       events, last_footprint, runner_state, quota,
                       sent, now, last_used, parsed, blocking_cleans>>

\* docker.containers.create raises.
ContainersCreateFails(t) ==
    LET me == tasks[t]
    IN  /\ me.pc = "containers_create"
        /\ Rollback(t)
        /\ Raise(t)
        /\ UNCHANGED <<container_registry, daemon, last_footprint, stats,
                       runner_state, quota,
                       sent, now, last_used, parsed, blocking_cleans>>

\* container.start answers.
ContainerStartOk(t) ==
    LET me == tasks[t]
    IN  /\ me.pc = "container_start"
        /\ containers[me.cid].state = "created"
        /\ containers' = [containers EXCEPT ![me.cid].state = "running"]
        /\ TaskGoes(t, [me EXCEPT !.pc = "container_port"])
        /\ UNCHANGED <<resources, container_registry, scratch, restart_state,
                       events, last_footprint, stats, runner_state, quota,
                       sent, now, last_used, parsed, blocking_cleans>>

\* container.start raises.
ContainerStartFails(t) ==
    LET me == tasks[t]
    IN  /\ me.pc = "container_start"
        /\ Rollback(t)
        /\ Raise(t)
        /\ UNCHANGED <<container_registry, daemon, last_footprint, stats,
                       runner_state, quota,
                       sent, now, last_used, parsed, blocking_cleans>>

\* The record _create_kernel publishes.
NewRecord(me) ==
    [container_id |-> me.cid, host_ports |-> me.ports,
     resource_spec |-> me.spec, runner_tasks |-> {}]

\* container.port answers for the exposed ports.  A container that is no
\* longer running reports no binding and the lookup raises, outside the
\* try block.  Otherwise the record is published and the handler returns;
\* in restart_kernel the tracker is dropped, the request lock released and
\* done_event set.
CreatePublish(t) ==
    LET me == tasks[t]
    IN  /\ me.pc = "container_port"
        /\ IF containers[me.cid].state # "running"
           THEN /\ UNCHANGED <<container_registry, last_used>>
                /\ Raise(t)
           ELSE /\ container_registry' =
                      [container_registry EXCEPT ![me.k] = NewRecord(me)]
                /\ last_used' = [last_used EXCEPT ![me.k] = now]
                /\ TaskEnds(t)
                /\ IF me.op = "restart"
                   THEN /\ restarting_kernels' =
                              [restarting_kernels EXCEPT ![me.k] = 0]
                        /\ trackers' = [trackers EXCEPT ![me.tr].holder = 0,
                                                        ![me.tr].done_event = TRUE]
                   ELSE UNCHANGED restart_state
        /\ UNCHANGED <<resources, scratch, daemon, last_footprint, stats,
                       runner_state, quota,
                       sent, now, parsed, blocking_cleans>>

(***************************************************************************)
(* Runners.  A record is identified by its container id; a runner          *)
(* remembers the record it was stored in and whether that record still     *)
(* holds it under 'runner'.  A record that was replaced or removed in the  *)
(* registry lives on in the handlers that hold a reference to it.          *)
(***************************************************************************)
RunnerOf(cid) ==
    IF \E r \in DOMAIN runners : runners[r].rec = cid /\ runners[r].installed
    THEN CHOOSE r \in DOMAIN runners : runners[r].rec = cid /\ runners[r].installed
    ELSE 0

(***************************************************************************)
(* clean_runner, entered by _destroy_kernel and clean_kernel for a kernel  *)
(* that is in the registry.  Its caller is task record me, which holds the *)
(* record it works on (info) and the tasks of runner_tasks it has yet to   *)
(* look at (pending).  One run of it, from the loop on, has these          *)
(* outcomes: a task of the list that is not done is cancelled and awaited  *)
(* (hit); or the list is empty, and the runner is popped from the record   *)
(* and its close awaited; or there is no runner either and the caller goes *)
(* on to pc next.  The list is a set, so any of its tasks may come first.  *)
(***************************************************************************)
CloseCalled(r) == IF r.state = "closed" THEN r ELSE [r EXCEPT !.state = "closing"]

CleanRunnerGo(me, next) ==
    IF me.pending # {}
    THEN {[task |-> [me EXCEPT !.pc = "await_task", !.waits = t,
                               !.pending = @ \ {t}],
           runners |-> runners, hit |-> t] : t \in me.pending}
    ELSE LET rid == RunnerOf(me.info)
         IN  IF rid = 0
             THEN {[task |-> [me EXCEPT !.pc = next], runners |-> runners,
                    hit |-> 0]}
             ELSE {[task |-> [me EXCEPT !.pc = "runner_close", !.rid = rid],
                    runners |-> [runners EXCEPT
                                    ![rid] = [CloseCalled(@) EXCEPT !.installed = FALSE]],
                    hit |-> 0]}

CleanRunnerEnter(me, next) ==
    LET rec == container_registry[me.k]
    IN  CleanRunnerGo([me EXCEPT !.info = rec.container_id,
                                 !.pending = rec.runner_tasks \cap DOMAIN tasks],
                      next)

\* task.cancel(): CancelledError is thrown into the task where it awaits; a
\* task that awaits runner.close() in its handler of an earlier cancellation
\* is thrown out of that handler.
Cancelled(rec) ==
    CASE rec.pc = "get_next_result" -> [rec EXCEPT !.pc = "cancelled"]
      [] rec.pc = "cancel_close" -> [rec EXCEPT !.pc = "cancelled_again"]
      [] OTHER -> rec

\* The tasks after outcome go of clean_runner for the caller with task id c.
Put(c, go) ==
    [x \in DOMAIN tasks \cup {c} |->
        IF x = c THEN go.task
        ELSE IF x = go.hit THEN Cancelled(tasks[x]) ELSE tasks[x]]

\* The pc a caller of clean_runner goes on with.
AfterCleanRunner(me) ==
    IF me.op = "clean" THEN "container_delete" ELSE "container_kill"

(***************************************************************************)
(* clean_kernel for a kernel-id that is not in the registry: the first     *)
(* try block ends in KeyError at once and nothing is awaited.              *)
(***************************************************************************)
\* _destroy_kernel for an unknown kernel-id without its call of clean_kernel.
CleanUnknownSkipped(k) == scratch

CleanUnknownScratch(k) ==
    IF restarting_kernels[k] # 0 THEN scratch
    ELSE [scratch EXCEPT ![k] = NoDir]

\* clean_kernel that sets the event of blocking_cleans next to the removal
\* of the record, where the KeyError of a missing record skips it.
CleanSetsKnown(k) ==
    IF restarting_kernels[k] = 0 /\ blocking_cleans[k] # "none" /\ InRegistry(k)
    THEN [blocking_cleans EXCEPT ![k] = "set"]
    ELSE blocking_cleans

\* The end of clean_kernel when no tracker is registered: the event of
\* blocking_cleans for the kernel-id, if there is one, is set.
CleanSets(k) ==
    IF restarting_kernels[k] = 0 /\ blocking_cleans[k] # "none"
    THEN [blocking_cleans EXCEPT ![k] = "set"]
    ELSE blocking_cleans

CleanUnknownTrackers(k, trs, rk) ==
    IF rk[k] # 0 THEN [trs EXCEPT ![rk[k]].destroy_event = TRUE]
    ELSE trs

(***************************************************************************)
(* _destroy_kernel.                                                        *)
(***************************************************************************)

\* rpc destroy_kernel: the handler up to its first await.
destroy_kernel(k) ==
    /\ quota.destroy[k] > 0
    /\ quota' = [quota EXCEPT !.destroy[k] = @ - 1]
    /\ IF ~InRegistry(k)
       THEN \* kernel missing: clean_kernel, kernel_terminated, return
            /\ scratch' = CleanUnknownScratch(k)
            /\ trackers' = CleanUnknownTrackers(k, trackers, restarting_kernels)
            /\ sent' = Publish(k, "self-terminated")
            /\ blocking_cleans' = CleanSets(k)
            /\ UNCHANGED <<tasks, runners>>
       ELSE LET me == [NoTask EXCEPT !.op = "destroy", !.k = k,
                                     !.reason = "user-requested",
                                     !.cid = container_registry[k].container_id]
            IN  \E go \in CleanRunnerEnter(me, "container_kill") :
                    /\ tasks' = Put(next_task, go)
                    /\ runners' = go.runners
                    /\ UNCHANGED <<scratch, trackers, sent, blocking_cleans>>
    /\ last_used' = Touch(k)
    /\ UNCHANGED <<resources, container_registry, restarting_kernels, daemon,
                   last_footprint, stats, runner_lock,
                   now, parsed>>

\* _destroy_kernel returns (or has logged the error it caught): destroy_kernel
\* is over, restart_kernel goes on to wait for destroy_event.
DestroyReturns(t) ==
    IF tasks[t].op = "restart"
    THEN TaskGoes(t, [tasks[t] EXCEPT !.pc = "destroy_event_wait"])
    ELSE TaskEnds(t)

\* container.kill reaches the daemon.  A running container dies and the
\* daemon emits its die event; a container that is not running is answered
\* with 409, a container that is gone with 404.
ContainerKill(t) ==
    LET me == tasks[t]
        c == containers[me.cid]
    IN  /\ me.pc = "container_kill"
        /\ CASE c.state = "running" ->
                   /\ containers' = [containers EXCEPT ![me.cid].state = "exited"]
                   /\ events' = Append(events, me.cid)
                   /\ TaskGoes(t, [me EXCEPT !.pc = "kill_ok"])
             [] c.state = "removed" ->
                   /\ TaskGoes(t, [me EXCEPT !.pc = "kill_404"])
                   /\ UNCHANGED daemon
             [] OTHER ->
                   /\ DestroyReturns(t)
                   /\ UNCHANGED daemon
        /\ UNCHANGED <<resources, container_registry, scratch, restart_state,
                       last_footprint, stats, runner_state, quota,
                       sent, now, last_used, parsed, blocking_cleans>>

\* After a kill that succeeded: the last stat sample is awaited when the
\* container has a stats state, and the state is deleted.
DestroyLastStat(t) ==
    LET me == tasks[t]
    IN  /\ me.pc \in {"kill_ok", "terminated_wait"}
        /\ IF me.pc = "kill_ok" /\ me.cid \in DOMAIN stats /\ ~stats[me.cid]
           THEN /\ TaskGoes(t, [me EXCEPT !.pc = "terminated_wait"])
                /\ UNCHANGED stats
           ELSE /\ me.cid \in DOMAIN stats => stats[me.cid]
                /\ stats' = [c \in DOMAIN stats \ {me.cid} |-> stats[c]]
                /\ DestroyReturns(t)
        /\ UNCHANGED <<resources, container_registry, scratch, restart_state,
                       daemon, last_footprint, runner_state, quota,
                       sent, now, last_used, parsed, blocking_cleans>>

\* The 404 branch: the kernel is forgotten.  The lookup of the record raises
\* KeyError inside the except block when the kernel has left the registry.
DestroyForget(t) ==
    LET me == tasks[t]
        spec == container_registry[me.k].resource_spec
    IN  /\ me.pc = "kill_404"
        /\ IF ~InRegistry(me.k)
           THEN /\ UNCHANGED <<cpu_free, accel_free, container_registry>>
                /\ Raise(t)
           ELSE /\ cpu_free' = CpuFree(cpu_free, spec.cpu_set)
                /\ accel_free' = IF HasAccel(spec)
                                 THEN AccelFree(accel_free, spec.cuda)
                                 ELSE accel_free
                /\ container_registry' =
                      [container_registry EXCEPT ![me.k] = NoRecord]
                /\ DestroyReturns(t)
                /\ UNCHANGED restart_state
        /\ UNCHANGED <<port_pool, scratch, daemon, last_footprint, stats,
                       runner_state, quota,
                       sent, now, last_used, parsed, blocking_cleans>>

(***************************************************************************)
(* The container daemon and the stats sidecar.                             *)
(***************************************************************************)

\* A running container terminates by itself; the daemon emits its die event.
ContainerExits(c) ==
    /\ quota.exit > 0
    /\ containers[c].state = "running"
    /\ quota' = [quota EXCEPT !.exit = @ - 1]
    /\ containers' = [containers EXCEPT ![c].state = "exited"]
    /\ events' = Append(events, c)
    /\ UNCHANGED <<resources, container_registry, scratch, restart_state,
                   last_footprint, stats, runner_state, tasks,
                   sent, now, last_used, parsed, blocking_cleans>>

\* collect_stats receives the sample with status 'terminated' that the
\* sidecar of a terminated container sends; an unknown container id gets a
\* stats state first.
collect_stats(c) ==
    /\ containers[c].state \in {"exited", "removed"}
    /\ ~containers[c].reported
    /\ containers' = [containers EXCEPT ![c].reported = TRUE]
    /\ stats' = [x \in DOMAIN stats \cup {c} |-> IF x = c THEN TRUE ELSE stats[x]]
    /\ UNCHANGED <<resources, container_registry, scratch, restart_state,
                   events, last_footprint, runner_state, tasks, quota,
                   sent, now, last_used, parsed, blocking_cleans>>

\* The stream delivers the die event of a terminated container once more.
DuplicateEvent(c) ==
    /\ quota.dup > 0
    /\ containers[c].state # "running"
    /\ quota' = [quota EXCEPT !.dup = @ - 1]
    /\ events' = Append(events, c)
    /\ UNCHANGED <<resources, container_registry, scratch, restart_state,
                   containers, last_footprint, stats, runner_state, tasks,
                   sent, now, last_used, parsed, blocking_cleans>>

\* A variant of monitor that does not compare the footprint of an event
\* with the last one: every die event is published and cleaned up after.
monitor_every_event ==
    /\ events # <<>>
    /\ events' = Tail(events)
    /\ last_footprint' = Head(events)
    /\ sent' = Publish(containers[Head(events)].kernel, "self-terminated")
    /\ TaskStarts([NoTask EXCEPT !.op = "clean",
                                 !.k = containers[Head(events)].kernel,
                                 !.pc = "clean_kernel"])
    /\ UNCHANGED <<resources, container_registry, scratch, restart_state,
                   containers, stats, runner_state, quota,
                   now, last_used, parsed, blocking_cleans>>

(***************************************************************************)
(* monitor: one event of the daemon's stream.  The stream carries the die  *)
(* events of kernel containers; the footprint of one is its container id.  *)
(***************************************************************************)
monitor ==
    /\ events # <<>>
    /\ events' = Tail(events)
    /\ IF Head(events) = last_footprint
       THEN UNCHANGED <<last_footprint, tasks, sent>>
       ELSE /\ last_footprint' = Head(events)
            /\ sent' = Publish(containers[Head(events)].kernel, "self-terminated")
            /\ TaskStarts([NoTask EXCEPT !.op = "clean",
                                         !.k = containers[Head(events)].kernel,
                                         !.pc = "clean_kernel"])
    /\ UNCHANGED <<resources, container_registry, scratch, restart_state,
                   containers, stats, runner_state, quota,
                   now, last_used, parsed, blocking_cleans>>

(***************************************************************************)
(* clean_kernel.                                                           *)
(***************************************************************************)

\* The part of clean_kernel after the first try block, from the state given
\* by registry reg: with a tracker registered destroy_event is set and
\* nothing else happens; otherwise the scratch directory is deleted, the
\* CPU set and the accelerator shares of the kernel's record are freed and
\* the record is removed.
CleanSettle(k) ==
    IF restarting_kernels[k] # 0
    THEN /\ trackers' = [trackers EXCEPT ![restarting_kernels[k]].destroy_event = TRUE]
         /\ UNCHANGED <<scratch, cpu_free, accel_free, container_registry,
                        restarting_kernels, blocking_cleans>>
    ELSE /\ scratch' = [scratch EXCEPT ![k] = NoDir]
         /\ blocking_cleans' = CleanSets(k)
         /\ IF InRegistry(k)
            THEN LET spec == container_registry[k].resource_spec
                 IN  /\ cpu_free' = CpuFree(cpu_free, spec.cpu_set)
                     /\ accel_free' = IF HasAccel(spec)
                                      THEN AccelFree(accel_free, spec.cuda)
                                      ELSE accel_free
                     /\ container_registry' =
                           [container_registry EXCEPT ![k] = NoRecord]
            ELSE UNCHANGED <<cpu_free, accel_free, container_registry>>
         /\ UNCHANGED restart_state

\* The scheduled clean_kernel starts: the record is looked up and
\* clean_runner entered; without a record the whole of it runs at once.
CleanStart(t) ==
    LET me == tasks[t]
        rec == container_registry[me.k]
    IN  /\ me.pc = "clean_kernel"
        /\ IF ~InRegistry(me.k)
           THEN /\ CleanSettle(me.k)
                /\ TaskEnds(t)
                /\ UNCHANGED runners
           ELSE /\ \E go \in CleanRunnerEnter([me EXCEPT !.cid = rec.container_id,
                                                        !.ports = rec.host_ports],
                                               "container_delete") :
                      /\ tasks' = Put(t, go)
                      /\ runners' = go.runners
                /\ UNCHANGED <<scratch, cpu_free, accel_free, container_registry,
                               restart_state, blocking_cleans>>
        /\ UNCHANGED <<port_pool, daemon, last_footprint, stats, runner_lock, quota,
                       sent, now, last_used, parsed>>

\* container.delete reaches the daemon: a container that is not running is
\* removed; the errors are swallowed or logged.
ContainerDelete(t) ==
    LET me == tasks[t]
    IN  /\ me.pc = "container_delete"
        /\ containers' = IF containers[me.cid].state \in {"created", "exited"}
                         THEN [containers EXCEPT ![me.cid].state = "removed"]
                         ELSE containers
        /\ TaskGoes(t, [me EXCEPT !.pc = "container_deleted"])
        /\ UNCHANGED <<resources, container_registry, scratch, restart_state,
                       events, last_footprint, stats, runner_state, quota,
                       sent, now, last_used, parsed, blocking_cleans>>

\* clean_kernel after container.delete: the host ports of the record it
\* holds go back to the pool when they lie in the range, then CleanSettle.
\* An exception that clean_runner raised has waited for the finally block:
\* KeyError is swallowed there, any other leaves clean_kernel at this point.
CleanFinish(t) ==
    LET me == tasks[t]
    IN  /\ me.pc = "container_deleted"
        /\ port_pool' = port_pool \cup (me.ports \cap PortRange)
        /\ IF me.got \in {"ok", "KeyError"}
           THEN CleanSettle(me.k)
           ELSE UNCHANGED <<scratch, cpu_free, accel_free, container_registry,
                           restart_state, blocking_cleans>>
        /\ TaskEnds(t)
        /\ UNCHANGED <<daemon, last_footprint, stats, runner_state, quota,
                       sent, now, last_used, parsed>>

(***************************************************************************)
(* restart_kernel.                                                         *)
(***************************************************************************)
NewTracker ==
    [holder |-> 0, waiters |-> <<>>, destroy_event |-> FALSE, done_event |-> FALSE]

\* asyncio.Lock: acquire() returns at once when the lock is not held and no
\* earlier caller waits for it.
LockFree(tracker) == tracker.holder = 0 /\ tracker.waiters = <<>>

\* restart_kernel from the moment task t owns tracker.request_lock (trs: the
\* trackers with the lock taken), up to its next await: the tracker is
\* registered and _destroy_kernel entered.  For a kernel-id that is not in
\* the registry _destroy_kernel runs clean_kernel, which finds the tracker
\* just registered and sets its destroy_event.
RestartLocked(t, me, trs) ==
    /\ restarting_kernels' = [restarting_kernels EXCEPT ![me.k] = me.tr]
    /\ IF ~InRegistry(me.k)
       THEN /\ trackers' = [trs EXCEPT ![me.tr].destroy_event = TRUE]
            /\ sent' = Publish(me.k, "self-terminated")
            /\ tasks' = [x \in DOMAIN tasks \cup {t} |->
                           IF x = t THEN [me EXCEPT !.pc = "destroy_event_wait"]
                           ELSE tasks[x]]
            /\ UNCHANGED runners
       ELSE /\ trackers' = trs
            /\ UNCHANGED sent
            /\ \E go \in CleanRunnerEnter(
                              [me EXCEPT !.cid = container_registry[me.k].container_id],
                              "container_kill") :
                  /\ tasks' = Put(t, go)
                  /\ runners' = go.runners

\* A live kernel: it is in the registry, its container runs and its
\* resource spec is on disk.
Live(k) ==
    /\ InRegistry(k)
    /\ containers[container_registry[k].container_id].state = "running"
    /\ scratch[k] # NoDir

\* rpc restart_kernel: the handler up to its first await.  The tracker of
\* the kernel-id is used when one is registered and a new one is built
\* otherwise; the handler waits when the tracker's lock is taken.
restart_kernel(k, cfg) ==
    LET fresh == restarting_kernels[k] = 0
        tr == IF fresh THEN Len(trackers) + 1 ELSE restarting_kernels[k]
        trs == IF fresh THEN Append(trackers, NewTracker) ELSE trackers
        me == [NoTask EXCEPT !.op = "restart", !.k = k, !.cfg = cfg, !.tr = tr,
                             !.reason = "restarting",
                             !.old_cid = IF Live(k)
                                         THEN container_registry[k].container_id
                                         ELSE 0,
                             !.old_spec = scratch[k]]
    IN  /\ quota.restart[k] > 0
        /\ quota' = [quota EXCEPT !.restart[k] = @ - 1]
        /\ IF LockFree(trs[tr])
           THEN RestartLocked(next_task, me,
                              [trs EXCEPT ![tr].holder = next_task])
           ELSE /\ trackers' = [trs EXCEPT ![tr].waiters = Append(@, next_task)]
                /\ tasks' = [x \in DOMAIN tasks \cup {next_task} |->
                               IF x = next_task
                               THEN [me EXCEPT !.pc = "request_lock"]
                               ELSE tasks[x]]
                /\ UNCHANGED <<restarting_kernels, runners, sent>>
        /\ last_used' = Touch(k)
        /\ UNCHANGED <<resources, container_registry, scratch, daemon,
                       last_footprint, stats, runner_lock,
                       now, parsed, blocking_cleans>>

\* A handler waiting for tracker.request_lock is handed the lock.
RestartAcquire(t) ==
    LET me == tasks[t]
        tracker == trackers[me.tr]
    IN  /\ me.pc = "request_lock"
        /\ tracker.holder = 0
        /\ tracker.waiters # <<>> /\ Head(tracker.waiters) = t
        /\ RestartLocked(t, me, [trackers EXCEPT ![me.tr].holder = t,
                                                 ![me.tr].waiters = Tail(@)])
        /\ UNCHANGED <<resources, container_registry, scratch, daemon,
                       last_footprint, stats, runner_lock, quota,
                       now, last_used, parsed, blocking_cleans>>

\* destroy_event is set: it is cleared and _create_kernel entered with
\* restarting=True.
RestartRecreate(t) ==
    LET me == tasks[t]
    IN  /\ me.pc = "destroy_event_wait"
        /\ trackers[me.tr].destroy_event
        /\ trackers' = [trackers EXCEPT ![me.tr].destroy_event = FALSE]
        /\ TaskGoes(t, [me EXCEPT !.pc = "images_get", !.restarting = TRUE])
        /\ UNCHANGED <<resources, container_registry, scratch,
                       restarting_kernels, daemon, last_footprint, stats,
                       runner_state, quota,
                       sent, now, last_used, parsed, blocking_cleans>>

\* The 30 seconds pass without destroy_event: the tracker is dropped from
\* restarting_kernels; the lookup of self._clean_kernel, which the class
\* does not define, raises AttributeError, so no clean-up is scheduled and
\* that error leaves the handler.
RestartTimeout(t) ==
    LET me == tasks[t]
    IN  /\ me.pc = "destroy_event_wait"
        /\ ~trackers[me.tr].destroy_event
        /\ restarting_kernels' = [restarting_kernels EXCEPT ![me.k] = 0]
        /\ trackers' = [trackers EXCEPT ![me.tr].holder = 0]
        /\ TaskEnds(t)
        /\ UNCHANGED <<resources, container_registry, scratch, daemon,
                       last_footprint, stats, runner_state, quota,
                       sent, now, last_used, parsed, blocking_cleans>>

(***************************************************************************)
(* clean_runner after its first await.                                     *)
(***************************************************************************)

\* The task that clean_runner cancelled and awaits is done.  When it ended
\* normally the loop goes on.  When an exception left it, that exception
\* leaves clean_runner: _destroy_kernel calls clean_runner outside its try
\* block, so the error leaves destroy_kernel and restart_kernel; clean_kernel
\* goes through its finally block, which deletes the container.
CleanRunnerResumes(t) ==
    LET me == tasks[t]
    IN  /\ me.pc = "await_task"
        /\ me.waits = 0
        /\ CASE me.got = "ok" ->
                   /\ \E go \in CleanRunnerGo(me, AfterCleanRunner(me)) :
                         /\ tasks' = Put(t, go)
                         /\ runners' = go.runners
                   /\ UNCHANGED restart_state
             [] me.got # "ok" /\ me.op = "clean" ->
                   /\ TaskGoes(t, [me EXCEPT !.pc = "container_delete"])
                   /\ UNCHANGED <<runners, restart_state>>
             [] OTHER ->
                   /\ Raise(t)
                   /\ UNCHANGED runners
        /\ UNCHANGED <<resources, container_registry, scratch, daemon,
                       last_footprint, stats, runner_lock, quota,
                       sent, now, last_used, parsed, blocking_cleans>>

\* runner.close() returns in clean_runner.
RunnerClosed(t) ==
    LET me == tasks[t]
    IN  /\ me.pc = "runner_close"
        /\ runners' = [runners EXCEPT ![me.rid].state = "closed"]
        /\ TaskGoes(t, [me EXCEPT !.pc = AfterCleanRunner(me)])
        /\ UNCHANGED <<resources, container_registry, scratch, restart_state,
                       daemon, last_footprint, stats, runner_lock, quota,
                       sent, now, last_used, parsed, blocking_cleans>>

(***************************************************************************)
(* _ensure_runner.                                                         *)
(***************************************************************************)
RunnerLockFree == runner_lock.holder = 0 /\ runner_lock.waiters = <<>>

NewRunner(k, cid) ==
    [k |-> k, rec |-> cid, state |-> "starting", installed |-> TRUE]

\* The tasks with the record of task t set to rec.
TasksPut(t, rec) ==
    [x \in DOMAIN tasks \cup {t} |-> IF x = t THEN rec ELSE tasks[x]]

\* The caller has its runner.  interrupt_kernel feeds the interrupt; _execute
\* adds itself to the runner_tasks of the record it looked up, which the
\* registry no longer holds when the record was replaced or removed
\* meanwhile, and goes on to attach, feed and wait for the result.
AfterEnsure(t, me) ==
    IF me.op = "interrupt"
    THEN /\ tasks' = TasksPut(t, [me EXCEPT !.pc = "feed_interrupt"])
         /\ UNCHANGED container_registry
    ELSE /\ tasks' = TasksPut(t, [me EXCEPT !.pc = "get_next_result"])
         /\ container_registry' =
               IF InRegistry(me.k) /\ container_registry[me.k].container_id = me.info
               THEN [container_registry EXCEPT ![me.k].runner_tasks = @ \cup {t}]
               ELSE container_registry

\* _ensure_runner from the moment task t owns runner_lock (lk: the lock as
\* taken): the runner of the registry's record is returned, or a new one is
\* stored in the record and started with the lock held.  The record's
\* lookup raises KeyError for a kernel that is not in the registry.
RunnerLocked(t, me, lk) ==
    IF ~InRegistry(me.k)
    THEN /\ runner_lock' = [lk EXCEPT !.holder = 0]
         /\ tasks' = [x \in DOMAIN tasks \ {t} |-> tasks[x]]
         /\ UNCHANGED <<runners, container_registry>>
    ELSE LET cur == container_registry[me.k].container_id
             rid == RunnerOf(cur)
         IN  IF rid # 0
             THEN /\ runner_lock' = [lk EXCEPT !.holder = 0]
                  /\ AfterEnsure(t, [me EXCEPT !.rid = rid])
                  /\ UNCHANGED runners
             ELSE /\ runner_lock' = lk
                  /\ runners' = Append(runners, NewRunner(me.k, cur))
                  /\ tasks' = TasksPut(t, [me EXCEPT !.pc = "runner_start",
                                                     !.rid = Len(runners) + 1])
                  /\ UNCHANGED container_registry

\* _ensure_runner from its start: "async with self.runner_lock".
EnsureRunner(t, me) ==
    IF RunnerLockFree
    THEN RunnerLocked(t, me, [runner_lock EXCEPT !.holder = t])
    ELSE /\ runner_lock' = [runner_lock EXCEPT !.waiters = Append(@, t)]
         /\ tasks' = TasksPut(t, [me EXCEPT !.pc = "runner_lock"])
         /\ UNCHANGED <<runners, container_registry>>

\* A task waiting for runner_lock is handed the lock.
RunnerAcquire(t) ==
    LET me == tasks[t]
    IN  /\ me.pc = "runner_lock"
        /\ runner_lock.holder = 0
        /\ runner_lock.waiters # <<>> /\ Head(runner_lock.waiters) = t
        /\ RunnerLocked(t, me, [holder |-> t, waiters |-> Tail(runner_lock.waiters)])
        /\ UNCHANGED <<resources, scratch, restart_state, daemon,
                       last_footprint, stats, quota,
                       sent, now, last_used, parsed, blocking_cleans>>

\* A variant of RunnerStarted in which the task keeps runner_lock after
\* runner.start() has returned, the lock serializing the later I/O on the
\* runner as well.
RunnerStartedHolding(t) ==
    LET me == tasks[t]
    IN  /\ me.pc = "runner_start"
        /\ runners' = [runners EXCEPT ![me.rid].state =
                          IF @ = "starting" THEN "open" ELSE @]
        /\ UNCHANGED runner_lock
        /\ AfterEnsure(t, me)
        /\ UNCHANGED <<resources, scratch, restart_state, daemon,
                       last_footprint, stats, quota,
                       sent, now, last_used, parsed, blocking_cleans>>

\* runner.start() returns: the "async with" block is left, the lock released.
RunnerStarted(t) ==
    LET me == tasks[t]
    IN  /\ me.pc = "runner_start"
        /\ runners' = [runners EXCEPT ![me.rid].state =
                          IF @ = "starting" THEN "open" ELSE @]
        /\ runner_lock' = [runner_lock EXCEPT !.holder = 0]
        /\ AfterEnsure(t, me)
        /\ UNCHANGED <<resources, scratch, restart_state, daemon,
                       last_footprint, stats, quota,
                       sent, now, last_used, parsed, blocking_cleans>>

(***************************************************************************)
(* interrupt_kernel.                                                       *)
(***************************************************************************)

\* rpc interrupt_kernel: the handler up to its first await.
interrupt_kernel(k) ==
    /\ quota.interrupt[k] > 0
    /\ quota' = [quota EXCEPT !.interrupt[k] = @ - 1]
    /\ last_used' = Touch(k)
    /\ EnsureRunner(next_task, [NoTask EXCEPT !.op = "interrupt", !.k = k])
    /\ UNCHANGED <<resources, scratch, restart_state, daemon, last_footprint,
                   stats,
                   sent, now, parsed, blocking_cleans>>

\* runner.feed_interrupt() returns and the handler with it.
InterruptDone(t) ==
    /\ tasks[t].pc = "feed_interrupt"
    /\ TaskEnds(t)
    /\ UNCHANGED <<resources, container_registry, scratch, restart_state,
                   daemon, last_footprint, stats, runner_state, quota,
                   sent, now, last_used, parsed, blocking_cleans>>

(***************************************************************************)
(* _execute.                                                               *)
(***************************************************************************)

\* _execute that raises RuntimeError for a missing record without sending
\* kernel_terminated first.
ExecuteLookupQuiet(t, me) ==
    IF ~InRegistry(me.k)
    THEN /\ tasks' = [x \in DOMAIN tasks \ {t} |-> tasks[x]]
         /\ UNCHANGED <<sent, runners, runner_lock, container_registry, last_used>>
    ELSE /\ last_used' = [last_used EXCEPT ![me.k] = now]
         /\ UNCHANGED sent
         /\ EnsureRunner(t, [me EXCEPT !.info = container_registry[me.k].container_id])

\* _execute from the lookup of the kernel's record on.  Without a record
\* kernel_terminated is sent and RuntimeError raised.
ExecuteLookup(t, me) ==
    IF ~InRegistry(me.k)
    THEN /\ tasks' = [x \in DOMAIN tasks \ {t} |-> tasks[x]]
         /\ sent' = Publish(me.k, "self-terminated")
         /\ UNCHANGED <<runners, runner_lock, container_registry, last_used>>
    ELSE /\ last_used' = [last_used EXCEPT ![me.k] = now]
         /\ UNCHANGED sent
         /\ EnsureRunner(t, [me EXCEPT !.info = container_registry[me.k].container_id])

\* rpc execute: the handler up to its first await.  With a tracker
\* registered for the kernel-id it waits for the tracker's done_event, which
\* returns at once when the event is set.
execute(k) ==
    LET tr == restarting_kernels[k]
        me == [NoTask EXCEPT !.op = "execute", !.k = k, !.tr = tr,
                             !.old_cid = container_registry[k].container_id]
    IN  /\ quota.execute[k] > 0
        /\ quota' = [quota EXCEPT !.execute[k] = @ - 1]
        /\ IF tr # 0 /\ ~trackers[tr].done_event
           THEN /\ tasks' = TasksPut(next_task, [me EXCEPT !.pc = "done_event_wait"])
                /\ UNCHANGED <<runners, runner_lock, container_registry, sent,
                               last_used>>
           ELSE ExecuteLookup(next_task, me)
        /\ UNCHANGED <<resources, scratch, restart_state, daemon,
                       last_footprint, stats,
                       now, parsed, blocking_cleans>>

\* done_event is set: the waiting _execute goes on.
ExecuteResumes(t) ==
    LET me == tasks[t]
    IN  /\ me.pc = "done_event_wait"
        /\ trackers[me.tr].done_event
        /\ ExecuteLookup(t, me)
        /\ UNCHANGED <<resources, scratch, restart_state, daemon,
                       last_footprint, stats, quota,
                       now, parsed, blocking_cleans>>

\* The finally block of _execute: the task removes itself from the
\* runner_tasks of the registry's record of the kernel-id; set.remove raises
\* KeyError when it is not in it.  The result is the outcome of the block.
Unlisted(t, k) ==
    IF InRegistry(k) /\ t \in container_registry[k].runner_tasks
    THEN [container_registry EXCEPT ![k].runner_tasks = @ \ {t}]
    ELSE container_registry

FinallyRaises(t, k) ==
    InRegistry(k) /\ t \notin container_registry[k].runner_tasks

ExecStatus == {"finished", "exec-timeout"}

\* runner.get_next_result returns with the given status.  After
\* 'exec-timeout' a _destroy_kernel is scheduled for a kernel that is in the
\* registry; it takes the place of the finished task here.
ExecuteResult(t, status) ==
    LET me == tasks[t]
    IN  /\ me.pc = "get_next_result"
        /\ container_registry' = Unlisted(t, me.k)
        /\ IF FinallyRaises(t, me.k)
           THEN TaskEndsWith(t, "KeyError")
           ELSE IF status = "exec-timeout" /\ InRegistry(me.k)
                THEN TaskGoes(t, [NoTask EXCEPT !.op = "destroy", !.k = me.k,
                                                !.reason = "exec-timeout",
                                                !.pc = "_destroy_kernel"])
                ELSE TaskEnds(t)
        /\ UNCHANGED <<resources, scratch, restart_state, daemon,
                       last_footprint, stats, runner_state, quota,
                       sent, now, last_used, parsed, blocking_cleans>>

\* The scheduled _destroy_kernel starts.
DestroyStart(t) ==
    LET me == tasks[t]
    IN  /\ me.pc = "_destroy_kernel"
        /\ IF ~InRegistry(me.k)
           THEN /\ scratch' = CleanUnknownScratch(me.k)
                /\ trackers' = CleanUnknownTrackers(me.k, trackers, restarting_kernels)
                /\ sent' = Publish(me.k, "self-terminated")
                /\ blocking_cleans' = CleanSets(me.k)
                /\ TaskEnds(t)
                /\ UNCHANGED runners
           ELSE /\ \E go \in CleanRunnerEnter(
                                [me EXCEPT !.cid = container_registry[me.k].container_id],
                                "container_kill") :
                      /\ tasks' = Put(t, go)
                      /\ runners' = go.runners
                /\ UNCHANGED <<scratch, trackers, sent, blocking_cleans>>
        /\ UNCHANGED <<resources, container_registry, restarting_kernels, daemon,
                       last_footprint, stats, runner_lock, quota,
                       now, last_used, parsed>>

\* CancelledError arrives in _execute: its handler awaits runner.close().
ExecuteCancelled(t) ==
    LET me == tasks[t]
    IN  /\ me.pc = "cancelled"
        /\ runners' = [runners EXCEPT ![me.rid] = CloseCalled(@)]
        /\ TaskGoes(t, [me EXCEPT !.pc = "cancel_close"])
        /\ UNCHANGED <<resources, container_registry, scratch, restart_state,
                       daemon, last_footprint, stats, runner_lock, quota,
                       sent, now, last_used, parsed, blocking_cleans>>

\* runner.close() returns in the handler: the runner is popped from the
\* record that _execute looked up, and the handler returns through the
\* finally block.
ExecuteCancelClosed(t) ==
    LET me == tasks[t]
        rid == RunnerOf(me.info)
        closed == [runners EXCEPT ![me.rid].state = "closed"]
    IN  /\ me.pc = "cancel_close"
        /\ runners' = IF rid = 0 THEN closed
                      ELSE [closed EXCEPT ![rid].installed = FALSE]
        /\ container_registry' = Unlisted(t, me.k)
        /\ TaskEndsWith(t, IF FinallyRaises(t, me.k) THEN "KeyError" ELSE "ok")
        /\ UNCHANGED <<resources, scratch, restart_state, daemon,
                       last_footprint, stats, runner_lock, quota,
                       sent, now, last_used, parsed, blocking_cleans>>

\* A second cancellation has thrown _execute out of its handler while it
\* awaited runner.close(): the pop is not reached, the finally block is.
ExecuteCancelledAgain(t) ==
    LET me == tasks[t]
    IN  /\ me.pc = "cancelled_again"
        /\ container_registry' = Unlisted(t, me.k)
        /\ TaskEndsWith(t, IF FinallyRaises(t, me.k) THEN "KeyError"
                                                     ELSE "CancelledError")
        /\ UNCHANGED <<resources, scratch, restart_state, daemon,
                       last_footprint, stats, runner_state, quota,
                       sent, now, last_used, parsed, blocking_cleans>>

(***************************************************************************)
(* The monotonic clock and the idle reaper.                                *)
(***************************************************************************)

\* Time passes.
Tick ==
    /\ now < MaxClock
    /\ now' = now + 1
    /\ UNCHANGED <<resources, container_registry, scratch, restart_state,
                   daemon, last_footprint, stats, runner_state, tasks, sent,
                   last_used, parsed, blocking_cleans, quota>>

\* The tasks ts with one more task, of record rec, under the lowest free id.
Spawned(ts, rec) ==
    LET n == CHOOSE n \in 1..(Cardinality(DOMAIN ts) + 1) :
                 /\ n \notin DOMAIN ts
                 /\ \A m \in 1..(n - 1) : m \in DOMAIN ts
    IN  [x \in DOMAIN ts \cup {n} |-> IF x = n THEN rec ELSE ts[x]]

\* asyncio.ensure_future(self._destroy_kernel(kernel_id, reason)) for every
\* kernel-id of ks.
RECURSIVE DestroyAll(_, _, _)
DestroyAll(ts, ks, reason) ==
    IF ks = {} THEN ts
    ELSE LET k == CHOOSE x \in ks : TRUE
         IN  DestroyAll(Spawned(ts, [NoTask EXCEPT !.op = "destroy", !.k = k,
                                                   !.reason = reason,
                                                   !.pc = "_destroy_kernel"]),
                        ks \ {k}, reason)

\* The kernels clean_old_kernels finds idle.
Idle == {k \in Kernels : InRegistry(k) /\ now - last_used[k] > IdleTimeout}

\* One tick of the reaper's timer: clean_old_kernels up to its await.
clean_old_kernels ==
    /\ quota.reap > 0
    /\ quota' = [quota EXCEPT !.reap = @ - 1]
    /\ tasks' = DestroyAll(tasks, Idle, "idle-timeout")
    /\ UNCHANGED <<resources, container_registry, scratch, restart_state,
                   daemon, last_footprint, stats, runner_state, sent, now,
                   last_used, parsed, blocking_cleans>>

(***************************************************************************)
(* shutdown(SIGTERM) and clean_all_kernels(blocking=True).                 *)
(***************************************************************************)

\* No kernel of the registry has a runner or an execute in flight:
\* clean_runner returns for each of them without awaiting anything.
NoRunners ==
    \A k \in Kernels :
        InRegistry(k) =>
            /\ container_registry[k].runner_tasks = {}
            /\ RunnerOf(container_registry[k].container_id) = 0

\* SIGTERM arrives while no kernel has a runner.  The RPC server is closed,
\* so no further call arrives; clean_all_kernels makes an event in
\* blocking_cleans for every kernel of the registry, schedules a
\* _destroy_kernel for each and awaits them all.
shutdown ==
    LET kernel_ids == {k \in Kernels : InRegistry(k)}
        destroys == DestroyAll(tasks, kernel_ids, "agent-termination")
        closed == [k \in Kernels |-> 0]
    IN  /\ quota.shutdown > 0
        /\ NoRunners
        /\ quota' = [quota EXCEPT !.shutdown = @ - 1,
                                  !.create = closed, !.destroy = closed,
                                  !.restart = closed, !.execute = closed,
                                  !.interrupt = closed, !.reset = 0]
        /\ blocking_cleans' = [k \in Kernels |->
                                  IF k \in kernel_ids THEN "clear"
                                  ELSE blocking_cleans[k]]
        /\ tasks' = Spawned(destroys,
                            [NoTask EXCEPT !.op = "shutdown",
                                           !.pc = "gather",
                                           !.kernels = kernel_ids,
                                           !.pending = DOMAIN destroys \ DOMAIN tasks])
        /\ UNCHANGED <<resources, container_registry, scratch, restart_state,
                       daemon, last_footprint, stats, runner_state, sent, now,
                       last_used, parsed>>

\* Every scheduled _destroy_kernel has returned: clean_all_kernels goes on
\* to wait for the events of blocking_cleans.
ShutdownGathered(t) ==
    LET me == tasks[t]
    IN  /\ me.op = "shutdown" /\ me.pc = "gather"
        /\ me.pending = {}
        /\ TaskGoes(t, [me EXCEPT !.pc = "blocking_cleans_wait"])
        /\ UNCHANGED <<resources, container_registry, scratch, restart_state,
                       daemon, last_footprint, stats, runner_state, sent, now,
                       last_used, parsed, blocking_cleans, quota>>

\* Every event is set: the events are dropped from blocking_cleans and
\* shutdown goes on to stop the timers and the monitor.
ShutdownCleaned(t) ==
    LET me == tasks[t]
    IN  /\ me.op = "shutdown" /\ me.pc = "blocking_cleans_wait"
        /\ \A k \in me.kernels : blocking_cleans[k] = "set"
        /\ blocking_cleans' = [k \in Kernels |->
                                  IF k \in me.kernels THEN "none"
                                  ELSE blocking_cleans[k]]
        /\ TaskEnds(t)
        /\ UNCHANGED <<resources, container_registry, scratch, restart_state,
                       daemon, last_footprint, stats, runner_state, sent, now,
                       last_used, parsed, quota>>

(***************************************************************************)
(* reset.                                                                  *)
(***************************************************************************)

\* The arguments the RPC server passes to the handler of reset: it checks
\* them against the signature of the method as written, which takes none.
ResetArgs == {<<>>}

\* rpc reset.  The method is wrapped by update_last_used, whose wrapper takes
\* the kernel-id as its first argument: a call without one raises TypeError
\* before the wrapper's body and the method's body are entered.
reset(args) ==
    /\ quota.reset > 0
    /\ quota' = [quota EXCEPT !.reset = @ - 1]
    /\ IF Len(args) < 1
       THEN UNCHANGED <<tasks, last_used>>
       ELSE /\ last_used' = Touch(args[1])
            /\ tasks' = DestroyAll(tasks, {k \in Kernels : InRegistry(k)},
                                   "agent-reset")
    /\ UNCHANGED <<resources, container_registry, scratch, restart_state,
                   daemon, last_footprint, stats, runner_state, sent, now,
                   parsed, blocking_cleans>>

(***************************************************************************)
(* The agent process is stopped with a signal other than SIGTERM, which    *)
(* leaves the kernels running, and started again: a new AgentRPCServer is  *)
(* constructed and init() runs scan_running_containers.                    *)
(***************************************************************************)

\* The containers the daemon lists, in the given state, for kernel-id k.
Listed(k, states) ==
    {c \in DOMAIN containers :
        containers[c].kernel = k /\ containers[c].state \in states}

Detected == {k \in Kernels : Listed(k, {"running"}) # {}}

\* kernel_terminated, self-terminated, for the containers cs.
RECURSIVE PublishAll(_, _)
PublishAll(bag, cs) ==
    IF cs = {} THEN bag
    ELSE LET c == CHOOSE x \in cs : TRUE
         IN  PublishAll(bag (+) SetToBag({<<containers[c].kernel,
                                           "self-terminated">>}),
                        cs \ {c})

\* The record scan_running_containers builds for a running container: the
\* host ports of its port bindings, the resource spec read from
\* resource.txt.
ScannedRecord(k) ==
    LET c == CHOOSE c \in Listed(k, {"running"}) : TRUE
    IN  [container_id |-> c, host_ports |-> containers[c].ports,
         resource_spec |-> scratch[k], runner_tasks |-> {}]

\* scan_running_containers that registers the kernels it finds running
\* without taking their host ports out of the pool.
PoolAfterScanAll == PortRange

\* The free pool after the scan: port_pool.discard for every host port
\* bound by a running container.
PoolAfterScan ==
    PortRange \ UNION {containers[c].ports :
                          c \in UNION {Listed(k, {"running"}) : k \in Kernels}}

\* The agent stops while no coroutine is in flight and every event has
\* been read, and starts again.  open() of resource.txt raises for a
\* running kernel without a scratch directory, and init() fails.  The
\* accelerator maps start empty and scan_running_containers does not
\* touch them.
Reconcile ==
    /\ quota.boot > 0
    /\ tasks = <<>>
    /\ \A k \in Detected : scratch[k] # NoDir
    /\ quota' = [quota EXCEPT !.boot = @ - 1]
    /\ port_pool' = PoolAfterScan
    /\ cpu_free' = CpuMask \
          UNION {containers[c].cpus :
                    c \in UNION {Listed(k, {"running"}) : k \in Kernels}}
    /\ accel_free' = [d \in AccelDevices |-> AccelCapacity]
    /\ container_registry' =
          [k \in Kernels |-> IF k \in Detected THEN ScannedRecord(k)
                             ELSE NoRecord]
    /\ last_used' = [k \in Kernels |-> IF k \in Detected THEN now
                                        ELSE last_used[k]]
    /\ sent' = PublishAll(sent, UNION {Listed(k, {"exited"}) : k \in Kernels})
    /\ restarting_kernels' = [k \in Kernels |-> 0]
    /\ last_footprint' = 0
    /\ stats' = <<>>
    /\ runner_lock' = [holder |-> 0, waiters |-> <<>>]
    /\ blocking_cleans' = [k \in Kernels |-> "none"]
    /\ UNCHANGED <<scratch, trackers, containers, runners, tasks, now, parsed>>

AgentRestarts ==
    /\ events = <<>>
    /\ Reconcile
    /\ UNCHANGED events

\* The agent is stopped before it has read the events of the daemon: the
\* new process subscribes anew and never sees them.
AgentKilled ==
    /\ events # <<>>
    /\ Reconcile
    /\ events' = <<>>

(***************************************************************************)
(* A service-port definition of an image label is parsed.                  *)
(***************************************************************************)
ParseServicePort ==
    /\ parsed.out = <<>>
    /\ parsed' = [parsed EXCEPT !.out = <<parse_service_port(parsed.s)>>]
    /\ UNCHANGED <<resources, container_registry, scratch, restart_state,
                   daemon, last_footprint, stats, runner_state, tasks, sent,
                   now, last_used, blocking_cleans, quota>>

(***************************************************************************)
(* Container names.  A name is a string, kept here as the sequence of its  *)
(* pieces: the slash the daemon's API puts before a name, the dot and      *)
(* words.                                                                  *)
(***************************************************************************)
Slash == "/"
Dot == "."
NameWords == {"kernel", "py"}

\* The kernel-ids of n pieces a manager may send: whatever the daemon
\* accepts in a container name.
KernelIds(n) == [1..n -> NameWords \cup {Dot}]

ImageNames == {<<"py">>, <<"py", Dot, "py">>}

\* The names of n pieces the daemon may report, of kernels and of other
\* containers.
ContainerNames(n) ==
    {s \in [1..n -> NameWords \cup {Dot, Slash}] : \A i \in 2..n : s[i] # Slash}

\* name.lstrip('/')
RECURSIVE lstrip(_)
lstrip(s) == IF s # <<>> /\ s[1] = Slash THEN lstrip(Tail(s)) ELSE s

startswith(s, prefix) == Len(s) >= Len(prefix) /\ SubSeq(s, 1, Len(prefix)) = prefix

\* name.split('.', 2)[-1]: what follows the second dot from the left, or
\* the last field of a name with fewer dots.
LastFieldFromLeft(s) ==
    LET dots == {i \in 1..Len(s) : s[i] = Dot}
        upto == {i \in dots : Cardinality({j \in dots : j <= i}) <= 2}
    IN  IF dots = {} THEN s
        ELSE SubSeq(s, (CHOOSE i \in upto : \A j \in upto : j <= i) + 1, Len(s))

\* name.rsplit('.', 2)[-1]: what follows the last dot, or all of a name
\* without a dot.
LastField(s) ==
    LET dots == {i \in 1..Len(s) : s[i] = Dot}
    IN  IF dots = {} THEN s
        ELSE SubSeq(s, (CHOOSE i \in dots : \A j \in dots : j <= i) + 1, Len(s))

\* get_kernel_id_from_container: <<>> stands for None, <<id>> for a string.
get_kernel_id_from_container(name) ==
    IF startswith(lstrip(name), <<"kernel", Dot>>)
    THEN <<LastField(lstrip(name))>>
    ELSE <<>>

\* f'kernel.{image_ref.name}.{kernel_id}'
kernel_name(image, kernel_id) == <<"kernel", Dot>> \o image \o <<Dot>> \o kernel_id

\* _create_kernel names the container of a kernel-id; the daemon reports
\* the name as it is in its events and with a slash before it in its list.
ContainerNamed(image, slash) ==
    /\ parsed.id # <<>> /\ parsed.s = <<>>
    /\ parsed' = [parsed EXCEPT !.s = slash \o kernel_name(image, parsed.id[1])]
    /\ UNCHANGED <<resources, container_registry, scratch, restart_state,
                   daemon, last_footprint, stats, runner_state, tasks, sent,
                   now, last_used, blocking_cleans, quota>>

\* The monitor or the scan resolves the kernel-id of a container name.
NameResolved ==
    /\ parsed.s # <<>> /\ parsed.out = <<>>
    /\ parsed' = [parsed EXCEPT !.out = <<get_kernel_id_from_container(parsed.s)>>]
    /\ UNCHANGED <<resources, container_registry, scratch, restart_state,
                   daemon, last_footprint, stats, runner_state, tasks, sent,
                   now, last_used, blocking_cleans, quota>>

(***************************************************************************)
(* The state after construction.                                           *)
(***************************************************************************)
InitObjects ==
    /\ port_pool = PortRange
    /\ cpu_free = CpuMask
    /\ accel_free = [d \in AccelDevices |-> AccelCapacity]
    /\ container_registry = [k \in Kernels |-> NoRecord]
    /\ scratch = [k \in Kernels |-> NoDir]
    /\ restarting_kernels = [k \in Kernels |-> 0]
    /\ trackers = <<>>
    /\ containers = <<>>
    /\ events = <<>>
    /\ last_footprint = 0
    /\ stats = <<>>
    /\ runners = <<>>
    /\ runner_lock = [holder |-> 0, waiters |-> <<>>]
    /\ tasks = <<>>
    /\ sent = EmptyBag
    /\ now = 0
    /\ last_used = [k \in Kernels |-> 0]
    /\ blocking_cleans = [k \in Kernels |-> "none"]

InitState ==
    /\ InitObjects
    /\ parsed = NoParse

None == [k \in Kernels |-> 0]

\* n calls for kernel-id k and none for the others.
Only(k, n) == [None EXCEPT ![k] = n]

NoQuota == [create |-> None, destroy |-> None, restart |-> None, exit |-> 0,
            execute |-> None, interrupt |-> None, dup |-> 0, reap |-> 0,
            reset |-> 0, boot |-> 0, shutdown |-> 0]

(***************************************************************************)
(* The lifecycle without restarts: create_kernel, destroy_kernel and       *)
(* containers that terminate by themselves.                                *)
(***************************************************************************)
Init ==
    /\ InitState
    /\ quota = [NoQuota EXCEPT !.create = [k \in Kernels |-> MaxCreate],
                               !.destroy = Only("k1", MaxDestroy),
                               !.exit = MaxExit]

CreateNext ==
    \/ \E t \in DOMAIN tasks : CreateAllocate(t)
    \/ \E t \in DOMAIN tasks : CreatePersist(t)
    \/ \E t \in DOMAIN tasks : ContainersCreateOk(t)
    \/ \E t \in DOMAIN tasks : ContainersCreateFails(t)
    \/ \E t \in DOMAIN tasks : ContainerStartOk(t)
    \/ \E t \in DOMAIN tasks : ContainerStartFails(t)
    \/ \E t \in DOMAIN tasks : CreatePublish(t)

DestroyNext ==
    \/ \E t \in DOMAIN tasks : ContainerKill(t)
    \/ \E t \in DOMAIN tasks : DestroyLastStat(t)
    \/ \E t \in DOMAIN tasks : DestroyForget(t)

CleanNext ==
    \/ \E c \in DOMAIN containers : collect_stats(c)
    \/ monitor
    \/ \E t \in DOMAIN tasks : CleanStart(t)
    \/ \E t \in DOMAIN tasks : ContainerDelete(t)
    \/ \E t \in DOMAIN tasks : CleanFinish(t)

Next ==
    \/ \E k \in Kernels, cfg \in Configs : create_kernel(k, cfg)
    \/ CreateNext
    \/ \E k \in Kernels : destroy_kernel(k)
    \/ DestroyNext
    \/ \E c \in DOMAIN containers : ContainerExits(c)
    \/ CleanNext

Spec == Init /\ [][Next]_vars

(***************************************************************************)
(* The lifecycle with a restart_kernel call and a destroy_kernel call for  *)
(* a kernel, next to the creation of another kernel.                       *)
(***************************************************************************)
InitRestart ==
    /\ InitState
    /\ quota = [NoQuota EXCEPT !.create = [k \in Kernels |-> MaxCreate],
                               !.destroy = Only("k1", MaxDestroy),
                               !.restart = Only("k1", MaxRestart)]

RestartNext ==
    \/ \E t \in DOMAIN tasks : RestartRecreate(t)
    \/ \E t \in DOMAIN tasks : RestartTimeout(t)
    \/ \E t \in DOMAIN tasks : CreateReuse(t)

LifecycleNext ==
    \/ CreateNext
    \/ RestartNext
    \/ DestroyNext
    \/ CleanNext

NextRestart ==
    \/ \E k \in Kernels, cfg \in Configs : create_kernel(k, cfg)
    \/ \E k \in Kernels, cfg \in Configs : restart_kernel(k, cfg)
    \/ \E k \in Kernels : destroy_kernel(k)
    \/ LifecycleNext

SpecRestart == InitRestart /\ [][NextRestart]_vars

(***************************************************************************)
(* Concurrent restart_kernel calls for one kernel-id.                      *)
(***************************************************************************)
InitSerial ==
    /\ InitState
    /\ quota = [NoQuota EXCEPT !.create = Only("k1", MaxCreate),
                               !.restart = Only("k1", MaxSerialRestart)]

NextSerial ==
    \/ \E k \in Kernels, cfg \in Configs : create_kernel(k, cfg)
    \/ \E k \in Kernels, cfg \in Configs : restart_kernel(k, cfg)
    \/ LifecycleNext
    \/ \E t \in DOMAIN tasks : RestartAcquire(t)

SpecSerial == InitSerial /\ [][NextSerial]_vars

(***************************************************************************)
(* Runners: execute and interrupt_kernel next to the restarts of a kernel. *)
(***************************************************************************)
InitRunner ==
    /\ InitState
    /\ quota = [NoQuota EXCEPT !.create = Only("k1", MaxCreate),
                               !.restart = Only("k1", MaxRestart),
                               !.execute = Only("k1", MaxExecute),
                               !.interrupt = Only("k1", MaxInterrupt),
                               !.exit = MaxExit]

ExecuteNext ==
    \/ \E k \in Kernels : execute(k)
    \/ \E t \in DOMAIN tasks : ExecuteResumes(t)
    \/ \E t \in DOMAIN tasks : RunnerStarted(t)
    \/ \E t \in DOMAIN tasks, status \in ExecStatus : ExecuteResult(t, status)
    \/ \E t \in DOMAIN tasks : DestroyStart(t)
    \/ \E t \in DOMAIN tasks : ExecuteCancelled(t)
    \/ \E t \in DOMAIN tasks : ExecuteCancelClosed(t)
    \/ \E t \in DOMAIN tasks : ExecuteCancelledAgain(t)
    \/ \E t \in DOMAIN tasks : CleanRunnerResumes(t)
    \/ \E t \in DOMAIN tasks : RunnerClosed(t)

RunnerNext ==
    \/ ExecuteNext
    \/ \E k \in Kernels : interrupt_kernel(k)
    \/ \E t \in DOMAIN tasks : RunnerAcquire(t)
    \/ \E t \in DOMAIN tasks : InterruptDone(t)

\* The configs of these runs: the image and the limits play no part in what
\* happens to runners.
RunnerConfigs == {cfg \in Configs : cfg.gpu_slot > 0}

NextRunner ==
    \/ \E k \in Kernels, cfg \in RunnerConfigs : create_kernel(k, cfg)
    \/ \E k \in Kernels, cfg \in RunnerConfigs : restart_kernel(k, cfg)
    \/ LifecycleNext
    \/ \E c \in DOMAIN containers : ContainerExits(c)
    \/ RunnerNext

SpecRunner == InitRunner /\ [][NextRunner]_vars

(***************************************************************************)
(* execute next to two restart_kernel calls for the kernel, the second of  *)
(* which may queue behind the first on its tracker.                        *)
(***************************************************************************)
InitQueued ==
    /\ InitState
    /\ quota = [NoQuota EXCEPT !.create = Only("k1", MaxCreate),
                               !.restart = Only("k1", MaxQueuedRestart),
                               !.execute = Only("k1", MaxExecute)]

NextQueued ==
    \/ \E k \in Kernels, cfg \in RunnerConfigs : create_kernel(k, cfg)
    \/ \E k \in Kernels, cfg \in RunnerConfigs : restart_kernel(k, cfg)
    \/ LifecycleNext
    \/ \E t \in DOMAIN tasks : RestartAcquire(t)
    \/ ExecuteNext

SpecQueued == InitQueued /\ [][NextQueued]_vars

FairQueued == SpecQueued /\ WF_vars(NextQueued)

(***************************************************************************)
(* The daemon's event stream with duplicates: kernels are created, their   *)
(* containers terminate by themselves and die events arrive twice.         *)
(***************************************************************************)
InitEvents ==
    /\ InitState
    /\ quota = [NoQuota EXCEPT !.create = [k \in Kernels |-> MaxCreate],
                               !.exit = MaxDie,
                               !.dup = MaxDuplicate]

NextEvents ==
    \/ \E k \in Kernels, cfg \in RunnerConfigs : create_kernel(k, cfg)
    \/ CreateNext
    \/ \E c \in DOMAIN containers : ContainerExits(c)
    \/ \E c \in DOMAIN containers : DuplicateEvent(c)
    \/ CleanNext

SpecEvents == InitEvents /\ [][NextEvents]_vars

(***************************************************************************)
(* The idle reaper next to a kernel that is created and then left alone.   *)
(* The event loop runs every task that is ready, time passes and the       *)
(* reaper's timer fires.                                                   *)
(***************************************************************************)
InitIdle ==
    /\ InitState
    /\ quota = [NoQuota EXCEPT !.create = Only("k1", MaxCreate),
                               !.reap = MaxReap]

NextIdle ==
    \/ \E k \in Kernels, cfg \in RunnerConfigs : create_kernel(k, cfg)
    \/ CreateNext
    \/ Tick
    \/ clean_old_kernels
    \/ \E t \in DOMAIN tasks : DestroyStart(t)
    \/ DestroyNext
    \/ CleanNext

SpecIdle == InitIdle /\ [][NextIdle]_vars

FairIdle == SpecIdle /\ WF_vars(NextIdle)

(***************************************************************************)
(* reset next to kernels that are created and whose containers may         *)
(* terminate by themselves.                                                *)
(***************************************************************************)
InitReset ==
    /\ InitState
    /\ quota = [NoQuota EXCEPT !.create = [k \in Kernels |-> MaxCreate],
                               !.exit = MaxExit,
                               !.reset = MaxReset]

NextReset ==
    \/ \E k \in Kernels, cfg \in Configs : create_kernel(k, cfg)
    \/ CreateNext
    \/ \E args \in ResetArgs : reset(args)
    \/ \E c \in DOMAIN containers : ContainerExits(c)
    \/ CleanNext

SpecReset == InitReset /\ [][NextReset]_vars

(***************************************************************************)
(* One kernel-id that is created, restarted and destroyed, every step that *)
(* can be taken being taken in the end.                                    *)
(***************************************************************************)
InitRound ==
    /\ InitState
    /\ quota = [NoQuota EXCEPT !.create = Only("k1", MaxCreate),
                               !.destroy = Only("k1", MaxDestroy),
                               !.restart = Only("k1", MaxRestart)]

SpecRound == InitRound /\ [][NextRestart]_vars

FairRound == SpecRound /\ WF_vars(NextRestart)

(***************************************************************************)
(* execute calls for one kernel, every step that can be taken being taken  *)
(* in the end.                                                             *)
(***************************************************************************)
InitExec ==
    /\ InitState
    /\ quota = [NoQuota EXCEPT !.create = Only("k1", MaxCreate),
                               !.execute = Only("k1", MaxExecute),
                               !.exit = MaxExit]

NextExec ==
    \/ \E k \in Kernels, cfg \in RunnerConfigs : create_kernel(k, cfg)
    \/ CreateNext
    \/ \E k \in Kernels : execute(k)
    \/ \E t \in DOMAIN tasks : RunnerStarted(t)
    \/ \E t \in DOMAIN tasks, status \in ExecStatus : ExecuteResult(t, status)
    \/ \E t \in DOMAIN tasks : DestroyStart(t)
    \/ \E t \in DOMAIN tasks : ExecuteCancelled(t)
    \/ \E t \in DOMAIN tasks : ExecuteCancelClosed(t)
    \/ \E t \in DOMAIN tasks : CleanRunnerResumes(t)
    \/ \E t \in DOMAIN tasks : RunnerClosed(t)
    \/ \E t \in DOMAIN tasks : ContainerKill(t)
    \/ \E t \in DOMAIN tasks : DestroyLastStat(t)
    \/ \E c \in DOMAIN containers : ContainerExits(c)
    \/ CleanNext

SpecExec == InitExec /\ [][NextExec]_vars

FairExec == SpecExec /\ WF_vars(NextExec)

(***************************************************************************)
(* SIGTERM next to kernels that are created and restarted, every step that *)
(* can be taken being taken in the end.                                    *)
(***************************************************************************)
InitShutdown ==
    /\ InitState
    /\ quota = [NoQuota EXCEPT !.create = [k \in Kernels |-> MaxCreate],
                               !.restart = Only("k1", MaxRestart),
                               !.shutdown = MaxShutdown]

NextShutdown ==
    \/ \E k \in Kernels, cfg \in RunnerConfigs : create_kernel(k, cfg)
    \/ \E k \in Kernels, cfg \in RunnerConfigs : restart_kernel(k, cfg)
    \/ LifecycleNext
    \/ shutdown
    \/ \E t \in DOMAIN tasks : DestroyStart(t)
    \/ \E t \in DOMAIN tasks : ShutdownGathered(t)
    \/ \E t \in DOMAIN tasks : ShutdownCleaned(t)

SpecShutdown == InitShutdown /\ [][NextShutdown]_vars

FairShutdown == SpecShutdown /\ WF_vars(NextShutdown)

(***************************************************************************)
(* The RPCs that name a kernel, next to a clock that advances and an agent *)
(* that is restarted.                                                      *)
(***************************************************************************)
InitTouch ==
    /\ InitState
    /\ quota = [NoQuota EXCEPT !.create = Only("k1", MaxCreate),
                               !.restart = Only("k1", MaxRestart),
                               !.execute = Only("k1", MaxExecute),
                               !.boot = MaxBoot]

NextTouch ==
    \/ \E k \in Kernels, cfg \in RunnerConfigs : create_kernel(k, cfg)
    \/ \E k \in Kernels, cfg \in RunnerConfigs : restart_kernel(k, cfg)
    \/ LifecycleNext
    \/ \E k \in Kernels : execute(k)
    \/ \E t \in DOMAIN tasks : ExecuteResumes(t)
    \/ \E t \in DOMAIN tasks : RunnerStarted(t)
    \/ \E t \in DOMAIN tasks, status \in ExecStatus : ExecuteResult(t, status)
    \/ \E t \in DOMAIN tasks : DestroyStart(t)
    \/ \E t \in DOMAIN tasks : ExecuteCancelled(t)
    \/ \E t \in DOMAIN tasks : ExecuteCancelClosed(t)
    \/ \E t \in DOMAIN tasks : CleanRunnerResumes(t)
    \/ \E t \in DOMAIN tasks : RunnerClosed(t)
    \/ Tick
    \/ AgentRestarts

SpecTouch == InitTouch /\ [][NextTouch]_vars

(***************************************************************************)
(* Two kernels are created, their containers may terminate, and the agent  *)
(* is stopped and started again, also with die events it has not read.     *)
(***************************************************************************)
InitBoot ==
    /\ InitState
    /\ quota = [NoQuota EXCEPT !.create = [k \in Kernels |-> MaxCreate],
                               !.exit = MaxDie,
                               !.boot = MaxBoot]

NextBoot ==
    \/ \E k \in Kernels, cfg \in Configs : create_kernel(k, cfg)
    \/ CreateNext
    \/ \E c \in DOMAIN containers : ContainerExits(c)
    \/ CleanNext
    \/ AgentRestarts
    \/ AgentKilled

SpecBoot == InitBoot /\ [][NextBoot]_vars

(***************************************************************************)
(* The idle reaper next to a kernel that is restarted and executed on      *)
(* while time passes.                                                      *)
(***************************************************************************)
InitReap ==
    /\ InitState
    /\ quota = [NoQuota EXCEPT !.create = Only("k1", MaxCreate),
                               !.restart = Only("k1", MaxRestart),
                               !.execute = Only("k1", MaxExecute),
                               !.reap = MaxRestartReap]

NextReap ==
    \/ \E k \in Kernels, cfg \in RunnerConfigs : create_kernel(k, cfg)
    \/ \E k \in Kernels, cfg \in RunnerConfigs : restart_kernel(k, cfg)
    \/ LifecycleNext
    \/ \E k \in Kernels : execute(k)
    \/ \E t \in DOMAIN tasks : ExecuteResumes(t)
    \/ \E t \in DOMAIN tasks : RunnerStarted(t)
    \/ \E t \in DOMAIN tasks, status \in ExecStatus : ExecuteResult(t, status)
    \/ \E t \in DOMAIN tasks : DestroyStart(t)
    \/ \E t \in DOMAIN tasks : ExecuteCancelled(t)
    \/ \E t \in DOMAIN tasks : ExecuteCancelClosed(t)
    \/ \E t \in DOMAIN tasks : CleanRunnerResumes(t)
    \/ \E t \in DOMAIN tasks : RunnerClosed(t)
    \/ Tick
    \/ clean_old_kernels

SpecReap == InitReap /\ [][NextReap]_vars

(***************************************************************************)
(* get_kernel_id_from_container on the names create builds for kernel-ids  *)
(* of up to MaxName pieces and on every other name of up to MaxName        *)
(* pieces.                                                                 *)
(***************************************************************************)
InitName ==
    /\ InitObjects
    /\ quota = NoQuota
    /\ \E n \in 1..MaxName :
          \/ \E k \in KernelIds(n) : parsed = [s |-> <<>>, id |-> <<k>>, out |-> <<>>]
          \/ \E s \in ContainerNames(n) : parsed = [s |-> s, id |-> <<>>, out |-> <<>>]

NextName ==
    \/ \E image \in ImageNames, slash \in {<<>>, <<Slash>>} : ContainerNamed(image, slash)
    \/ NameResolved

SpecName == InitName /\ [][NextName]_vars

(***************************************************************************)
(* A kernel with an execute in flight whose container terminates by itself *)
(* while the manager destroys it.                                          *)
(***************************************************************************)
InitDie ==
    /\ InitState
    /\ quota = [NoQuota EXCEPT !.create = Only("k1", MaxCreate),
                               !.execute = Only("k1", MaxExecute),
                               !.destroy = Only("k1", MaxDestroy),
                               !.exit = MaxExit]

NextDie ==
    \/ NextExec
    \/ \E k \in Kernels : destroy_kernel(k)
    \/ \E t \in DOMAIN tasks : DestroyForget(t)
    \/ \E t \in DOMAIN tasks : ExecuteCancelledAgain(t)

SpecDie == InitDie /\ [][NextDie]_vars

FairDie == SpecDie /\ WF_vars(NextDie)

(***************************************************************************)
(* A kernel that is restarted and whose container then terminates by       *)
(* itself, a daemon that delivers die events again, and the shutdown of    *)
(* the agent.                                                              *)
(***************************************************************************)
InitBlocking ==
    /\ InitState
    /\ quota = [NoQuota EXCEPT !.create = Only("k1", MaxCreate),
                               !.restart = Only("k1", MaxRestart),
                               !.exit = MaxExit,
                               !.dup = MaxRedelivered,
                               !.shutdown = MaxShutdown]

NextBlocking ==
    \/ NextShutdown
    \/ \E c \in DOMAIN containers : ContainerExits(c)
    \/ \E c \in DOMAIN containers : DuplicateEvent(c)

SpecBlocking == InitBlocking /\ [][NextBlocking]_vars

(***************************************************************************)
(* parse_service_port on every definition of up to MaxLen pieces.          *)
(***************************************************************************)
InitParse ==
    /\ InitObjects
    /\ quota = NoQuota
    /\ \E n \in 0..MaxLen :
          \E s \in Definitions(n) : parsed = [s |-> s, out |-> <<>>]

NextParse == ParseServicePort

SpecParse == InitParse /\ [][NextParse]_vars

(***************************************************************************)
(* Properties.                                                             *)
(***************************************************************************)
Registered == {k \in Kernels : InRegistry(k)}

RegistryPorts == UNION {container_registry[k].host_ports : k \in Registered}

\* No create, destroy, restart or clean_kernel is in progress, and no die
\* event waits for monitor() to schedule a clean_kernel.
Quiescent == tasks = <<>> /\ events = <<>>

\* C1: in every quiescent state the free port pool and the host_ports of the
\* kernels in the registry are disjoint and together make up the configured
\* port range.
PortConservation ==
    Quiescent => /\ port_pool \cap RegistryPorts = {}
                 /\ port_pool \cup RegistryPorts = PortRange

\* C2: in every reachable state no host port is both in the free pool and in
\* the host_ports of a record of the registry, and no host port is in the
\* host_ports of two kernels.
PortsDisjoint ==
    /\ port_pool \cap RegistryPorts = {}
    /\ \A k1, k2 \in Registered :
          k1 # k2 => container_registry[k1].host_ports
                        \cap container_registry[k2].host_ports = {}

\* C3: in every reachable state the cpu_sets of the kernels in the registry
\* are pairwise disjoint subsets of the CPU mask.
CpuDisjoint ==
    /\ \A k \in Registered :
          container_registry[k].resource_spec.cpu_set \subseteq CpuMask
    /\ \A k1, k2 \in Registered :
          k1 # k2 => container_registry[k1].resource_spec.cpu_set
                        \cap container_registry[k2].resource_spec.cpu_set = {}

RECURSIVE RegistryShare(_, _)
RegistryShare(d, ks) ==
    IF ks = {} THEN 0
    ELSE LET k == CHOOSE x \in ks : TRUE
         IN  container_registry[k].resource_spec.cuda[d]
                + RegistryShare(d, ks \ {k})

\* C4: in every reachable state the shares of a device recorded in the
\* resource_specs of the kernels in the registry sum to at most the whole
\* device.
AccelBudget ==
    \A d \in AccelDevices : RegistryShare(d, Registered) <= AccelCapacity

\* The step in which the create_kernel call of task t ends without having
\* published a record.
CreateFails(t) ==
    /\ tasks[t].op = "create"
    /\ t \notin DOMAIN tasks'
    /\ container_registry'[tasks[t].k].container_id # tasks[t].cid
          \/ tasks[t].cid = 0

\* What the call has drawn by the time of that step is back, and the
\* directory it made is gone.
CreateRestored(t) ==
    LET me == tasks[t]
        held == me.spec # NoSpec
    IN  /\ port_pool' = port_pool \cup me.ports
        /\ cpu_free' = IF held THEN cpu_free \cup me.spec.cpu_set ELSE cpu_free
        /\ accel_free' = IF held THEN AccelFree(accel_free, me.spec.cuda)
                                 ELSE accel_free
        /\ scratch'[me.k] = IF me.pc \in {"containers_create", "container_start",
                                          "container_port"}
                            THEN NoDir ELSE scratch[me.k]
        /\ container_registry' = container_registry

\* C5: when create_kernel fails after its first allocation and before the
\* record is published, the port pool, the CPU allocator and the accelerator
\* allocator are what they were without the call, the scratch directory of
\* the call does not exist and the registry has no entry of the call.
RollbackAtomicity ==
    [][\A t \in DOMAIN tasks : CreateFails(t) => CreateRestored(t)]_vars

\* The step in which the restart_kernel call of task t returns its response.
RestartReturns(t) ==
    /\ tasks[t].op = "restart"
    /\ tasks[t].pc = "container_port"
    /\ t \notin DOMAIN tasks'
    /\ containers[tasks[t].cid].state = "running"

\* C6: when a restart_kernel call on a live kernel returns successfully, the
\* container_id of the registry differs from the one before the call and the
\* resource_spec of the registry and on disk is the on-disk spec of before
\* the call, whatever the limits of new_config.
RestartIdentity ==
    [][\A t \in DOMAIN tasks :
          (RestartReturns(t) /\ tasks[t].old_cid # 0) =>
              LET k == tasks[t].k
              IN  /\ container_registry'[k].container_id # tasks[t].old_cid
                  /\ container_registry'[k].resource_spec = tasks[t].old_spec
                  /\ scratch'[k] = tasks[t].old_spec]_vars

\* The restart_kernel calls for kernel-id k that are between the start of
\* their destroy step and the end of their re-create step.
Restarting(k) ==
    {t \in DOMAIN tasks : /\ tasks[t].op = "restart"
                          /\ tasks[t].k = k
                          /\ tasks[t].pc # "request_lock"}

\* C7: at most one restart_kernel call for a kernel-id is at any time
\* between the start of its destroy step and the end of its re-create step.
RestartSerialized ==
    \A k \in Kernels : Cardinality(Restarting(k)) <= 1

\* The step in which an execute call for kernel-id k arrives.
ExecuteStarts(k) == quota'.execute[k] < quota.execute[k]

\* The step in which the _execute of task t leaves its wait for done_event.
ExecuteLeavesWait(t) ==
    /\ tasks[t].op = "execute"
    /\ tasks[t].pc = "done_event_wait"
    /\ t \in DOMAIN tasks' => tasks'[t].pc # "done_event_wait"

\* C8: an execute call that starts while a tracker is registered for its
\* kernel-id waits before it looks up the kernel's record, in every restart
\* of the kernel; and when it goes on, a record it finds is not the one of
\* before the call.
ExecuteAwaitsRestart ==
    [][/\ \A k \in Kernels :
             (ExecuteStarts(k) /\ restarting_kernels[k] # 0) =>
                 /\ next_task \in DOMAIN tasks'
                 /\ tasks'[next_task].pc = "done_event_wait"
       /\ \A t \in DOMAIN tasks :
             (ExecuteLeavesWait(t) /\ InRegistry(tasks[t].k)) =>
                 container_registry[tasks[t].k].container_id # tasks[t].old_cid]_vars

\* The runners of kernel-id k that were created and on which close() has
\* not been called.
OpenRunners(k) ==
    {r \in DOMAIN runners : /\ runners[r].k = k
                            /\ runners[r].state \in {"starting", "open"}}

\* C9: at any instant and for any kernel-id at most one runner exists that
\* has been created and not closed.
OneRunner == \A k \in Kernels : Cardinality(OpenRunners(k)) <= 1

\* C10, as the spec states it: no task is suspended inside runner.start
\* while it owns runner_lock.
StartOutsideLock ==
    \A t \in DOMAIN tasks :
        tasks[t].pc = "runner_start" => runner_lock.holder # t

\* C10, as the code has it: runner_lock is owned exactly by the task that is
\* suspended inside runner.start; no task owns it while it awaits anything
\* else (the later I/O on the runner included).
LockAcrossStartOnly ==
    /\ \A t \in DOMAIN tasks :
          tasks[t].pc = "runner_start" <=> runner_lock.holder = t
    /\ runner_lock.holder # 0 => runner_lock.holder \in DOMAIN tasks

\* A task is suspended inside runner.start and owns the lock while another
\* task awaits I/O on a runner.
LockAcrossStartSeen ==
    \E t, u \in DOMAIN tasks :
        /\ tasks[t].pc = "runner_start"
        /\ runner_lock.holder = t
        /\ tasks[u].pc \in {"get_next_result", "feed_interrupt"}

\* The step in which monitor() takes an event from the stream.
MonitorReads == Len(events') < Len(events)

\* The tasks that start in a step.
Started == {t \in DOMAIN tasks' : t \notin DOMAIN tasks}

\* C11: an event whose footprint is that of the event read just before it
\* causes no kernel_terminated and no clean_kernel; any other die event of a
\* kernel container causes exactly one kernel_terminated for its kernel and
\* exactly one scheduled clean_kernel.
EventDeduplication ==
    [][MonitorReads =>
         LET c == Head(events)
             k == containers[c].kernel
         IN  IF c = last_footprint
             THEN sent' = sent /\ tasks' = tasks
             ELSE /\ sent' = sent (+) SetToBag({<<k, "self-terminated">>})
                  /\ Cardinality(Started) = 1
                  /\ \A t \in Started : tasks'[t].op = "clean" /\ tasks'[t].k = k
                  /\ \A t \in DOMAIN tasks : t \in DOMAIN tasks' /\ tasks'[t] = tasks[t]]_vars

\* The stream has delivered three die events, one of them a duplicate, all
\* were read, and two kernel_terminated events were published.
DuplicateDropped ==
    /\ quota.exit = MaxDie - 2
    /\ quota.dup = MaxDuplicate - 1
    /\ events = <<>>
    /\ BagCardinality(sent) = 2

\* A _destroy_kernel for kernel-id k with the given reason is in flight.
Destroying(k, reason) ==
    \E t \in DOMAIN tasks :
        tasks[t].op = "destroy" /\ tasks[t].k = k /\ tasks[t].reason = reason

\* C12: once the reaper has found a kernel idle and started its destroy, a
\* kernel_terminated event with the reason idle-timeout is published for
\* the kernel.
IdleReaping ==
    \A k \in Kernels :
        Destroying(k, "idle-timeout") ~>
            (CopiesIn(<<k, "idle-timeout">>, sent) > 0)

\* The step in which a reset call arrives.
ResetStarts == quota'.reset < quota.reset

\* C13: reset() starts the destroy, with the reason agent-reset, of every
\* kernel that is in the registry when it is called.
ResetDestroysAll ==
    [][ResetStarts =>
          \A k \in Kernels :
              InRegistry(k) =>
                  \E t \in DOMAIN tasks' :
                      /\ tasks'[t].op = "destroy"
                      /\ tasks'[t].k = k
                      /\ tasks'[t].reason = "agent-reset"]_vars

\* The kill of destroy_kernel(k) has reached the container of a kernel that
\* a create_kernel put into the registry, and no create or restart of k is
\* running or will be called.
RoundTripKilled(k) ==
    /\ InRegistry(k)
    /\ quota.create[k] = 0 /\ quota.restart[k] = 0
    /\ \A t \in DOMAIN tasks : tasks[t].k = k => tasks[t].op \in {"destroy", "clean"}
    /\ \E t \in DOMAIN tasks : /\ tasks[t].k = k
                               /\ tasks[t].op = "destroy"
                               /\ tasks[t].reason = "user-requested"
                               /\ tasks[t].pc = "kill_ok"

\* C14: after create_kernel(k) has succeeded and destroy_kernel(k) has killed
\* the container, the processing of the die event leaves no registry entry
\* and no scratch directory for k.
RoundTrip ==
    \A k \in Kernels :
        RoundTripKilled(k) ~> (~InRegistry(k) /\ scratch[k] = NoDir)

\* Task t leaves the program point pc in this step.
Leaves(t, pc) ==
    /\ t \in DOMAIN tasks
    /\ tasks[t].pc = pc
    /\ t \notin DOMAIN tasks' \/ tasks'[t].pc # pc \/ tasks'[t].op # tasks[t].op

\* The 30-second wait of restart_kernel ends without destroy_event.
RestartTimesOut(t) ==
    /\ Leaves(t, "destroy_event_wait")
    /\ ~trackers[tasks[t].tr].destroy_event

\* C17: when the wait of restart_kernel times out, the tracker is dropped
\* and a clean-up of the kernel is started.
RestartTimeoutCleans ==
    [][\A t \in DOMAIN tasks :
          RestartTimesOut(t) =>
              /\ restarting_kernels'[tasks[t].k] = 0
              /\ \E n \in DOMAIN tasks' :
                    /\ tasks'[n].op = "clean"
                    /\ tasks'[n].k = tasks[t].k
                    /\ n \in DOMAIN tasks => tasks[n].op # "clean"]_vars

\* The daemon has answered 404 to the kill of a destroy of a kernel that is
\* in the registry, and _destroy_kernel returns.
Destroy404Returns(t) ==
    /\ Leaves(t, "kill_404")
    /\ InRegistry(tasks[t].k)

\* C18: when _destroy_kernel returns from the 404 branch, the kernel is not
\* in the registry, its host ports are in the pool and its scratch directory
\* is gone.
Destroy404Releases ==
    [][\A t \in DOMAIN tasks :
          Destroy404Returns(t) =>
              LET k == tasks[t].k
              IN  /\ container_registry'[k].container_id = 0
                  /\ (container_registry[k].host_ports \cap PortRange)
                        \subseteq port_pool'
                  /\ container_registry[k].resource_spec.cpu_set
                        \subseteq cpu_free'
                  /\ scratch'[k] = NoDir]_vars

\* C15: after _execute has started the destroy of a kernel with the reason
\* exec-timeout, a kernel_terminated event with the reason exec-timeout is
\* published for it.
ExecTimeoutPublished ==
    \A k \in Kernels :
        Destroying(k, "exec-timeout")
            ~> (CopiesIn(<<k, "exec-timeout">>, sent) > 0)

\* 100 ** n.
RECURSIVE Hundreds(_)
Hundreds(n) == IF n = 0 THEN 1 ELSE 100 * Hundreds(n - 1)

\* The decimal number the digit pairs s[i..Len(s)] spell.
RECURSIVE Spelt(_, _)
Spelt(s, i) ==
    IF i > Len(s) THEN 0
    ELSE PairValue(s[i]) * Hundreds(Len(s) - i) + Spelt(s, i + 1)

\* The definitions of the grammar name:protocol:port with the colons at i
\* and j: the protocol is one of tcp, pty and http, and the port is a
\* number above 1024 other than 2000 and 2001.
ConformsAt(s, i, j) ==
    /\ i < j /\ j < Len(s)
    /\ \A n \in 1..Len(s) : s[n] = Colon <=> n \in {i, j}
    /\ j = i + 2 /\ s[i + 1] \in {"tcp", "pty", "http"}
    /\ \A n \in (j + 1)..Len(s) : s[n] \in DigitPairs
    /\ Spelt(s, j + 1) > 1024
    /\ Spelt(s, j + 1) \notin {2000, 2001}

Conforming(s) == \E i, j \in 1..Len(s) : ConformsAt(s, i, j)

\* C16: parse_service_port returns for a definition exactly when it has the
\* form name:protocol:port with protocol tcp, pty or http and a port above
\* 1024 other than 2000 and 2001; what it returns is the name, the protocol,
\* the port as container_port and no host_port; for every other definition
\* it raises.
ServicePortValidation ==
    parsed.out # <<>> =>
        LET s == parsed.s
            out == parsed.out[1]
        IN  IF Conforming(s)
            THEN \E i, j \in 1..Len(s) :
                    /\ ConformsAt(s, i, j)
                    /\ out = [raised |-> "none",
                              value |-> [name |-> SubSeq(s, 1, i - 1),
                                         protocol |-> s[i + 1],
                                         container_port |-> Spelt(s, j + 1),
                                         host_port |-> "None"]]
            ELSE /\ out.raised \in {"ValueError", "AssertionError"}
                 /\ DOMAIN out = {"raised"}

\* The definition http:http:1025 has been parsed and accepted.
ServicePortParsed ==
    /\ parsed.out # <<>>
    /\ parsed.s = <<"http", Colon, "http", Colon, "10", "25">>
    /\ parsed.out[1].raised = "none"

\* An RPC that names kernel k arrives in this step.
RpcEnters(k) ==
    \/ quota'.create[k] < quota.create[k]
    \/ quota'.destroy[k] < quota.destroy[k]
    \/ quota'.restart[k] < quota.restart[k]
    \/ quota'.interrupt[k] < quota.interrupt[k]
    \/ quota'.execute[k] < quota.execute[k]

\* C19: an RPC that names a kernel of the registry sets the kernel's
\* last_used to the current time in the step in which it arrives.
LastUsedTouched ==
    [][\A k \in Kernels :
          RpcEnters(k) /\ InRegistry(k) => last_used'[k] = now]_vars

\* C20: for every kernel-id, last_used never decreases, whatever step is
\* taken: an RPC, an execute, the publication of the record of a created or
\* restarted kernel, the restart of the agent, a tick of the clock.
LastUsedMonotonic ==
    [][\A k \in Kernels : last_used'[k] >= last_used[k]]_vars

\* The agent has been restarted, and the registry holds, for a kernel that
\* restart_kernel was called for, the record of a later container than its
\* first, with a last_used later than the start of the clock.
LastUsedAdvanced ==
    \E k \in Kernels :
        /\ InRegistry(k)
        /\ container_registry[k].container_id > 1
        /\ quota.restart[k] < MaxRestart
        /\ quota.boot < MaxBoot
        /\ last_used[k] > 0

\* C21: every kernel of the registry has its resource.txt in its scratch
\* directory.
ResourceSpecStored ==
    \A k \in Kernels : InRegistry(k) => scratch[k] # NoDir

\* destroy_kernel(k) arrives in this step.
DestroyEnters(k) == quota'.destroy[k] < quota.destroy[k]

\* C22: destroy_kernel for a kernel-id that is not in the registry and has
\* no restart tracker publishes one kernel_terminated event with the reason
\* self-terminated, runs clean_kernel (the scratch directory of the id is
\* gone), returns at once and leaves the registry, the port pool, the CPU map
\* and the accelerator map as they are.
DestroyUnknown ==
    [][\A k \in Kernels :
          DestroyEnters(k) /\ ~InRegistry(k) /\ restarting_kernels[k] = 0 =>
              /\ sent' = sent (+) SetToBag({<<k, "self-terminated">>})
              /\ scratch' = [scratch EXCEPT ![k] = NoDir]
              /\ tasks' = tasks
              /\ UNCHANGED <<container_registry, port_pool, cpu_free,
                             accel_free, restart_state>>]_vars

\* destroy_kernel has been called for a kernel-id no container was ever
\* created for, and its event is the only one published.
DestroyUnknownSeen ==
    /\ containers = <<>>
    /\ quota.destroy["k1"] < MaxDestroy
    /\ sent = SetToBag({<<"k1", "self-terminated">>})

\* shutdown(SIGTERM) is under way.
ShuttingDown == \E t \in DOMAIN tasks : tasks[t].op = "shutdown"

\* C23: shutdown(SIGTERM) completes in the end, with an empty registry.
ShutdownCompletes ==
    ShuttingDown ~> (~ShuttingDown /\ \A k \in Kernels : ~InRegistry(k))

\* A fresh create (restarting=False) leaves the point after images.get,
\* where the CPUs are allocated.
Allocates(t) == Leaves(t, "images_get") /\ ~tasks[t].restarting

\* C24: a create without a pinned cpu_set allocates min(requested cpu_slot,
\* CPUs available) CPUs, also when other kernels hold some of the CPUs.
UnderProvisionedCpu ==
    [][\A t \in DOMAIN tasks :
          Allocates(t) =>
              Cardinality(cpu_free \ cpu_free') =
                  Min(tasks[t].cfg.cpu_slot, Cardinality(cpu_free))]_vars

\* clean_kernel reaches its end (line 1436) in this step, for kernel-id k
\* with a restart tracker registered: either it held a record and the
\* container.delete has returned, or there was no record at all.
CleanEndsTracked(t, k) ==
    /\ t \in DOMAIN tasks
    /\ tasks[t].op = "clean"
    /\ tasks[t].k = k
    /\ restarting_kernels[k] # 0
    /\ \/ Leaves(t, "container_deleted")
       \/ Leaves(t, "clean_kernel") /\ ~InRegistry(k)

\* clean_runner, called by the clean_kernel of task t for a kernel with a
\* restart tracker registered, returns in this step.
CleanRunnerReturns(t) ==
    /\ t \in DOMAIN tasks \cap DOMAIN tasks'
    /\ tasks[t].op = "clean"
    /\ restarting_kernels[tasks[t].k] # 0
    /\ tasks[t].pc \in {"clean_kernel", "await_task"}
    /\ tasks'[t].pc \in {"runner_close", "container_delete"}
    /\ tasks'[t].got = "ok"

\* C25: clean_kernel for a kernel with a restart tracker registered returns
\* the in-range host ports and signals destroy_event, with the container
\* deleted and the runner closed, and leaves the CPU allocator, the
\* accelerator allocators, the scratch directory, the registry entry and
\* blocking_cleans as they were.
CleanKeepsForRestart ==
    [][\A t \in DOMAIN tasks : \A k \in Kernels :
          /\ CleanRunnerReturns(t) =>
                ~\E r \in DOMAIN runners' :
                     runners'[r].rec = tasks'[t].info /\ runners'[r].installed
          /\ CleanEndsTracked(t, k) =>
                /\ port_pool' = port_pool \cup (tasks[t].ports \cap PortRange)
                /\ trackers'[restarting_kernels[k]].destroy_event
                /\ tasks[t].cid # 0 => containers[tasks[t].cid].state # "exited"
                /\ UNCHANGED <<cpu_free, accel_free, scratch, container_registry,
                               restarting_kernels, blocking_cleans>>]_vars

\* A restart_kernel call for kernel-id k is in progress or waits for the
\* request_lock.
RestartCalled(k) ==
    \E t \in DOMAIN tasks : tasks[t].op = "restart" /\ tasks[t].k = k

\* C26: a kernel-id for which no restart_kernel call is in progress or
\* waiting has no tracker in restarting_kernels.
TrackerLifecycle ==
    \A k \in Kernels : ~RestartCalled(k) => restarting_kernels[k] = 0

\* The restart_kernel call of task t finds destroy_event set and starts its
\* re-create in this step.
RecreateStarts(t) ==
    /\ Leaves(t, "destroy_event_wait")
    /\ t \in DOMAIN tasks'
    /\ tasks'[t].pc = "images_get"

\* C27: when a restart_kernel call starts its re-create, the container its
\* destroy step killed has been deleted and the host ports of that
\* container are back in the pool.
RestartOrdering ==
    [][\A t \in DOMAIN tasks :
          RecreateStarts(t) /\ tasks[t].cid # 0 =>
              containers[tasks[t].cid].state = "removed"]_vars

\* _destroy_kernel of task t, past its container.kill, returns in this step.
DestroyReturnsNow(t) ==
    /\ t \in DOMAIN tasks
    /\ tasks[t].op \in {"destroy", "restart"}
    /\ tasks[t].pc \in {"container_kill", "kill_ok", "terminated_wait"}
    /\ t \notin DOMAIN tasks' \/ tasks'[t].pc = "destroy_event_wait"

\* C28: a destroy of a kernel whose container has a stats state returns
\* only after the sample with status terminated was received for the
\* container, and the stats state is removed when it returns.
LastStatAwaited ==
    [][\A t \in DOMAIN tasks :
          DestroyReturnsNow(t) /\ tasks[t].cid \in DOMAIN stats =>
              /\ stats[tasks[t].cid]
              /\ tasks[t].cid \notin DOMAIN stats']_vars

\* The _execute tasks of kernel-id k that are between the line that adds
\* them to runner_tasks and the end of their finally block.
Executing(k) ==
    {t \in DOMAIN tasks :
        /\ tasks[t].op = "execute"
        /\ tasks[t].k = k
        /\ tasks[t].pc \in {"get_next_result", "cancelled", "cancel_close",
                            "cancelled_again"}}

\* C29: the runner_tasks of a kernel's record are exactly the execute tasks
\* in flight for the kernel.
RunnerTasksExact ==
    \A k \in Kernels :
        InRegistry(k) => container_registry[k].runner_tasks = Executing(k)

\* An _execute task that was cancelled while it waited on the runner ends in
\* this step.
CancelledExecuteEnds(t) ==
    /\ t \in DOMAIN tasks
    /\ tasks[t].op = "execute"
    /\ tasks[t].pc \in {"cancel_close", "cancelled_again"}
    /\ t \notin DOMAIN tasks'

\* C30: an execute cancelled while it waits on the runner ends from its
\* handler without raising, with its runner closed and popped from the
\* record and itself out of runner_tasks; the port pool, the CPU map, the
\* accelerator maps and the key set of the registry are as they were.
ExecuteCancellation ==
    [][\A t \in DOMAIN tasks :
          CancelledExecuteEnds(t) =>
              LET me == tasks[t]
              IN  /\ me.pc = "cancel_close"
                  /\ InRegistry(me.k) => t \in container_registry[me.k].runner_tasks
                  /\ runners'[me.rid].state = "closed"
                  /\ ~runners'[me.rid].installed
                  /\ \A k \in Kernels :
                        /\ InRegistry(k) <=> container_registry'[k].container_id # 0
                        /\ InRegistry(k) => t \notin container_registry'[k].runner_tasks
                  /\ UNCHANGED <<port_pool, cpu_free, accel_free>>]_vars

\* _execute of kernel-id k reaches the lookup of the record in this step:
\* the call arrives with no restart to wait for, or its wait for done_event
\* ends.
ExecuteLooksUp(k) ==
    \/ /\ ExecuteStarts(k)
       /\ \/ restarting_kernels[k] = 0
          \/ trackers[restarting_kernels[k]].done_event
    \/ \E t \in DOMAIN tasks : Leaves(t, "done_event_wait") /\ tasks[t].k = k

\* C31: an execute that finds no record for its kernel-id publishes one
\* kernel_terminated event for it and ends there: no task of the call and
\* no runner is left, and the registry, the port pool, the CPU map and the
\* accelerator maps are as they were.
ExecuteUnknown ==
    [][\A k \in Kernels :
          ExecuteLooksUp(k) /\ ~InRegistry(k) =>
              /\ sent' = sent (+) SetToBag({<<k, "self-terminated">>})
              /\ DOMAIN tasks' \subseteq DOMAIN tasks
              /\ \A t \in DOMAIN tasks' : tasks'[t] = tasks[t]
              /\ UNCHANGED <<runners, container_registry, port_pool, cpu_free,
                             accel_free>>]_vars

ExecuteUnknownSeen ==
    /\ quota.execute["k1"] < MaxExecute
    /\ trackers = <<>>
    /\ containers = <<>>
    /\ tasks = <<>>
    /\ runners = <<>>
    /\ sent = SetToBag({<<"k1", "self-terminated">>})

\* The agent process starts anew in this step: the registry is rebuilt by
\* scan_running_containers.
Boots == quota'.boot < quota.boot

\* A create or the re-create of a restart publishes its record for k.
Publishes(k) ==
    \E t \in DOMAIN tasks :
        /\ tasks[t].op \in {"create", "restart"}
        /\ tasks[t].k = k
        /\ Leaves(t, "container_port")

\* A clean_kernel for k ends.
CleanEnds(k) ==
    \E t \in DOMAIN tasks :
        /\ tasks[t].op = "clean"
        /\ tasks[t].k = k
        /\ Leaves(t, "container_deleted")

\* C32: a key enters the registry only when a create or a re-create
\* publishes its record or when the agent reconciles at its start, and a
\* key leaves the registry only in clean_kernel.
RegistryOwnership ==
    [][\A k \in Kernels :
          /\ ~InRegistry(k) /\ container_registry'[k].container_id # 0 =>
                Publishes(k) \/ Boots
          /\ InRegistry(k) /\ container_registry'[k].container_id = 0 =>
                CleanEnds(k) \/ Boots]_vars


\* C33: every runner that was created and on which close() has not been
\* called is held, under 'runner', by the record the registry has for its
\* kernel-id: a record is removed or replaced only after its runner was
\* closed.
RunnerOwnership ==
    \A r \in DOMAIN runners :
        runners[r].state \in {"starting", "open"} =>
            /\ runners[r].installed
            /\ container_registry[runners[r].k].container_id = runners[r].rec

Reaps == quota'.reap < quota.reap

\* The kernels for which the step starts a destroy with reason idle-timeout.
Reaped ==
    {tasks'[t].k : t \in {x \in DOMAIN tasks' \ DOMAIN tasks :
                              /\ tasks'[x].op = "destroy"
                              /\ tasks'[x].reason = "idle-timeout"}}

\* C35: a tick of the reaper starts a destroy only for the kernels whose
\* last_used is more than idle_timeout before the tick, and a kernel of the
\* registry that receives an RPC is not idle from that moment on: a tick
\* within idle_timeout of the call does not find it.
IdleReaperSafety ==
    [][/\ Reaps => Reaped \subseteq Idle
       /\ \A k \in Kernels :
             RpcEnters(k) /\ InRegistry(k) =>
                 now' - last_used'[k] <= IdleTimeout]_vars

\* C36: the kernel-id resolved from the name create built for a kernel-id
\* is that kernel-id, and no kernel-id is resolved from a name that, with
\* a slash before it removed, does not start with "kernel.".
NameRoundTrip ==
    parsed.out # <<>> =>
        /\ parsed.id # <<>> => parsed.out[1] = parsed.id
        /\ ~startswith(IF parsed.s[1] = Slash THEN Tail(parsed.s) ELSE parsed.s,
                       <<"kernel", Dot>>) => parsed.out[1] = <<>>
\* C36, amended: the kernel-id resolved from the name create built for a
\* kernel-id without a dot is that kernel-id, and no kernel-id is resolved
\* from a name that, with a slash before it removed, does not start with
\* "kernel.".
NameRoundTripDotless ==
    parsed.out # <<>> =>
        /\ (parsed.id # <<>> /\ \A i \in 1..Len(parsed.id[1]) : parsed.id[1][i] # Dot) =>
                parsed.out[1] = parsed.id
        /\ ~startswith(IF parsed.s[1] = Slash THEN Tail(parsed.s) ELSE parsed.s,
                       <<"kernel", Dot>>) => parsed.out[1] = <<>>

\* The kernel-id py was resolved from the name the daemon lists for its
\* container of an image with a dot in its name.
NameRoundTripSeen ==
    /\ parsed.id = <<<<"py">>>>
    /\ parsed.s = <<Slash, "kernel", Dot, "py", Dot, "py", Dot, "py">>
    /\ parsed.out = <<<<<<"py">>>>>>

\* The die event of the container of k's record is in the stream of the
\* daemon and no restart_kernel call for k is in progress.
Died(k) ==
    /\ InRegistry(k)
    /\ containers[container_registry[k].container_id].state = "exited"
    /\ \E i \in 1..Len(events) : events[i] = container_registry[k].container_id
    /\ ~RestartCalled(k)

\* The resources of kernel-id k are back and its record is gone.
Reclaimed(k) ==
    /\ CopiesIn(<<k, "self-terminated">>, sent) > 0
    /\ ~InRegistry(k)
    /\ scratch[k] = NoDir
    /\ \A c \in DOMAIN containers :
          containers[c].kernel = k =>
              /\ containers[c].ports \subseteq port_pool
              /\ containers[c].cpus \subseteq cpu_free
    /\ \A d \in AccelDevices : accel_free[d] = AccelCapacity

\* C37: when the container of a kernel of the registry has died and no
\* restart of the kernel is in progress, kernel_terminated is published
\* and the kernel's host ports, CPU set, accelerator shares, scratch
\* directory and registry entry are eventually reclaimed.
DieCleanup == \A k \in Kernels : Died(k) ~> Reclaimed(k)

\* An execute of kernel-id k waits for done_event.
Blocked(k) ==
    \E t \in DOMAIN tasks :
        tasks[t].op = "execute" /\ tasks[t].k = k /\ tasks[t].pc = "done_event_wait"

\* C38: an execute that waits for the done_event of a restart eventually
\* goes on, however the restart ends.
BlockedExecutesReleased == \A k \in Kernels : Blocked(k) ~> ~Blocked(k)

\* C39: no allocation is given back twice: the free share of a device
\* never exceeds its capacity, and no CPU is free while the running
\* container of a kernel of the registry holds it.
NoDoubleFree ==
    /\ \A d \in AccelDevices : accel_free[d] <= AccelCapacity
    /\ \A k \in Kernels :
          (/\ InRegistry(k)
           /\ containers[container_registry[k].container_id].state = "running") =>
              containers[container_registry[k].container_id].cpus \cap cpu_free = {}

\* The scheduled clean_kernel of task t runs for a kernel-id that has no
\* record and no tracker.
CleansUnknown(t) ==
    /\ tasks[t].op = "clean"
    /\ Leaves(t, "clean_kernel")
    /\ ~InRegistry(tasks[t].k)
    /\ restarting_kernels[tasks[t].k] = 0

\* C40: clean_kernel for a kernel-id that is not in the registry and has no
\* tracker ends at once without an error; it deletes the scratch directory
\* of the id, sets the event of blocking_cleans registered for it and
\* leaves the registry, the port pool, the CPU map and the accelerator map
\* as they are.
CleanUnknown ==
    [][\A t \in DOMAIN tasks :
          CleansUnknown(t) =>
              /\ tasks' = [x \in DOMAIN tasks \ {t} |-> tasks[x]]
              /\ scratch' = [scratch EXCEPT ![tasks[t].k] = NoDir]
              /\ blocking_cleans' =
                    [blocking_cleans EXCEPT ![tasks[t].k] =
                        IF @ = "none" THEN "none" ELSE "set"]
              /\ UNCHANGED <<container_registry, port_pool, cpu_free,
                             accel_free, restart_state, containers, sent>>]_vars
\* The shutdown waits for k1, which was restarted; the 404 branch has removed
\* its record while the clean_kernel of its second container's die event
\* was deleting the container, and the host ports are still out.  The
\* clean_kernel of the first container's die event, delivered again, found
\* no record, deleted the scratch directory and set the event.
CleanUnknownSeen ==
    /\ ~InRegistry("k1")
    /\ ~RestartCalled("k1")
    /\ restarting_kernels["k1"] = 0
    /\ blocking_cleans["k1"] = "set"
    /\ scratch["k1"] = NoDir
    /\ quota.dup < MaxRedelivered
    /\ last_footprint = 1
    /\ events = <<>>
    /\ Len(containers) = 2
    /\ containers[2].state = "removed"
    /\ containers[2].ports \cap port_pool = {}
    /\ \E t \in DOMAIN tasks :
          /\ tasks[t].op = "clean" /\ tasks[t].k = "k1"
          /\ tasks[t].cid = 2 /\ tasks[t].pc = "container_deleted"

=============================================================================
